---------------------------- MODULE Spec2Model ----------------------------
(***************************************************************************)
(* A model of the locolive backend's two stateful cores:                   *)
(*                                                                         *)
(*   - the refresh-token lifecycle of internal/domain/auth_service.go on   *)
(*     top of the tables users, sessions and refresh_tokens               *)
(*     (internal/repository/postgres.go, db/migrations/001);               *)
(*   - the in-memory WebSocket connection registry of                      *)
(*     internal/api/websocket_manager.go.                                  *)
(*                                                                         *)
(* A service call is a sequence of store round trips.  Each round trip     *)
(* (together with the pure computation that precedes it) is one step, so   *)
(* that concurrent requests interleave exactly where the Go code can be    *)
(* pre-empted between two statements on the shared database.               *)
(***************************************************************************)
EXTENDS Integers, Sequences, FiniteSets, TLC

(***************************************************************************)
(* Bounds of the model.                                                    *)
(***************************************************************************)
\* The wall clock runs over the seconds 0..MaxTime.
MaxTime == 2
\* cfg.JWT.RefreshExpiry (168h by default), scaled to clock seconds.
RefreshExpiry == 2
\* cfg.JWT.AccessExpiry (15m by default), scaled likewise: shorter than
\* RefreshExpiry.
AccessExpiry == 1
\* No login or registration starts once this many session rows exist.
MaxSessions == 2
\* No call that would store a refresh-token record starts once this many exist.
MaxTokens == 3
\* At most this many events are ever dispatched with SendToUser.
MaxEvents == 3
\* At most this many password resets are ever initiated.
MaxResets == 2
\* Lifetime of a password-reset token (1 hour), scaled to clock seconds.
ResetExpiry == 1
\* At most this many chat and message rows are ever inserted, rolled back
\* ones included.
MaxIds == 3
\* At most this many notification goroutines are ever started.
MaxJobs == 2
\* Capacity of a connection's outbound queue: make(chan []byte, 256) in
\* ChatHandler.HandleWebSocket, scaled down.
SendBuffer == 2

\* The request goroutines that may be in flight at the same time.
Procs == {"p1", "p2"}
EmailSeq == <<"u1@test.com", "u2@test.com">>
Emails == {EmailSeq[i] : i \in 1..Len(EmailSeq)}
Passwords == {"Abcd1234", "Secret123"}
\* The registrations clients attempt; logins try every email and password.
Registrations == {<<"u1@test.com", "Abcd1234">>, <<"u2@test.com", "Secret123">>}
UserIds == 1..Len(EmailSeq)
\* The connections, numbered in the order in which they are opened, and the
\* users that open them.
Clients == {1, 2}
WSUsers == {"A", "B"}

VARIABLES
    now,            \* time.Now() / NOW(), in whole seconds
    users,          \* table users: set of rows
    sessions,       \* table sessions: set of rows
    refresh_tokens, \* table refresh_tokens: set of rows
    calls,          \* per request goroutine: the call in flight, if any
    last,           \* the call that returned last, and what it returned
    redeemed,       \* history: tokens a RefreshToken call succeeded with
    loggedOut,      \* history: issued tokens a Logout call succeeded with
    swept,          \* history: tokens stored before a successful LogoutAll or
                    \* ResetPassword of their user
    client,         \* the *Client objects and the goroutines of each connection
    clients,        \* WebSocketManager.clients
    userClients,    \* WebSocketManager.userClients
    run,            \* position of the WebSocketManager.Run goroutine
    sent,           \* number of SendToUser calls made
    panic,          \* the runtime panic that ended the process, "none" if none
    password_reset_tokens, \* table password_reset_tokens: set of rows
    resetDone,      \* history: reset tokens a ResetPassword call succeeded with
    messages,       \* table messages: set of rows
    notifications,  \* table notifications: set of rows
    connections,    \* table connections: set of rows
    pushes,         \* number of messages handed to FCM
    req,            \* the chat or connection request being handled, if any
    jobs,           \* the notification goroutines that have not ended
    spawned,        \* number of notification goroutines started
    reply,          \* the response written last by a chat or connection handler
    chats,          \* table chats: set of rows
    chat_participants,  \* table chat_participants: set of rows
    idSeq,          \* number of row ids generated for chats and messages
    tx              \* per process: its open repository transaction, if any

authVars == <<now, users, sessions, refresh_tokens, calls, last, redeemed,
              loggedOut, swept>>

wsVars == <<client, clients, userClients, run, sent, panic>>

resetVars == <<password_reset_tokens, resetDone>>

chatVars == <<messages, notifications, connections, pushes, req, jobs,
              spawned, reply>>

txVars == <<chats, chat_participants, idSeq, tx>>

(***************************************************************************)
(* internal/auth: tokens and hashes.                                       *)
(*                                                                         *)
(* A signed JWT is determined by its claims and the signing secret.  The   *)
(* claims of a refresh token are the token type, the user id and the       *)
(* issue time truncated to the second (jwt.NewNumericDate); expiry and     *)
(* not-before follow from the issue time.  `sig` tells whether the         *)
(* signature verifies under the server's secret.                           *)
(***************************************************************************)
NoToken == [kind |-> "none", uid |-> 0, iat |-> 0, sig |-> FALSE]

\* A token-shaped string that was not signed with the server's secret.
Forged == [kind |-> "refresh", uid |-> 1, iat |-> 0, sig |-> FALSE]

GenerateRefreshToken(userID, t) ==
    [kind |-> "refresh", uid |-> userID, iat |-> t, sig |-> TRUE]

RefreshExpiresAt(t) == t + RefreshExpiry

GenerateAccessToken(userID, t) ==
    [kind |-> "access", uid |-> userID, iat |-> t, sig |-> TRUE]

\* The exp claim of a token: the issue time plus the expiry of its type.
ExpiresAt(tok) ==
    IF tok.kind = "access" THEN tok.iat + AccessExpiry
    ELSE RefreshExpiresAt(tok.iat)

\* The strings a client can put in an Authorization header or a refresh
\* request: one that is no JWT at all, and JWTs of either type for any user
\* and issue time, signed with the server's secret or with another.
TokenStrings ==
    {NoToken} \cup [kind : {"access", "refresh"}, uid : UserIds,
                    iat : 0..MaxTime, sig : BOOLEAN]

\* The tokens GenerateAccessToken and GenerateRefreshToken can have made.
MintedAs(type) == {tok \in TokenStrings : tok.sig /\ tok.kind = type}

\* A faulty variant: the exp claim is not looked at.
ValidateToken_ExpiryUnchecked(tok, t) ==
    IF ~tok.sig THEN "Invalid" ELSE "ok"

\* jwt.ParseWithClaims: signature first (a string that does not parse has
\* none that verifies), then the registered claims (exp).
ValidateToken(tok, t) ==
    IF ~tok.sig THEN "Invalid"
    ELSE IF ~(t < ExpiresAt(tok)) THEN "Expired"
    ELSE "ok"

\* A faulty variant: the token type is not looked at.
ValidateAccessToken_AnyType(tok, t) == ValidateToken(tok, t)

ValidateAccessToken(tok, t) ==
    IF ValidateToken(tok, t) # "ok" THEN ValidateToken(tok, t)
    ELSE IF tok.kind # "access" THEN "Invalid"
    ELSE "ok"

ValidateRefreshToken(tok, t) ==
    IF ValidateToken(tok, t) # "ok" THEN ValidateToken(tok, t)
    ELSE IF tok.kind # "refresh" THEN "Invalid"
    ELSE "ok"

\* SHA-256, taken to be collision free: equal hashes iff equal tokens.
HashToken(tok) == <<"sha256", tok>>

\* bcrypt: the hash verifies exactly the password it was made from.
HashPassword(pw) == <<"bcrypt", pw>>

VerifyPassword(pw, hash) == hash = HashPassword(pw)

(***************************************************************************)
(* internal/repository/postgres.go: the queries, as functions of the       *)
(* tables.                                                                 *)
(***************************************************************************)
UserExistsByEmail(email) == \E u \in users : u.email = email

GetUserByEmail(email) == {u \in users : u.email = email /\ u.is_active}

GetUserByID(id) == {u \in users : u.id = id /\ u.is_active}

\* A faulty variant: an account that has no password hash passes the check.
VerifyUserPassword_AcceptsNoHash(email, pw) ==
    {u \in GetUserByEmail(email) :
        u.password_hash = <<>> \/ VerifyPassword(pw, u.password_hash)}

VerifyUserPassword(email, pw) ==
    {u \in GetUserByEmail(email) :
        u.password_hash # <<>> /\ VerifyPassword(pw, u.password_hash)}

\* Row ids are uuid_generate_v4() values: opaque, unique, only ever compared
\* for equality.  The model names a user row by the only registration that
\* can have created it (email is UNIQUE), and a refresh-token row by its
\* token_hash (UNIQUE as well).
UserIdOf(email) == CHOOSE i \in UserIds : EmailSeq[i] = email

\* INSERT INTO users ... ; email is UNIQUE.  A user created by Register has a
\* password hash and no Google id.
CreateUserRow(email, pw) ==
    [id |-> UserIdOf(email), email |-> email,
     password_hash |-> HashPassword(pw), google_id |-> <<>>, is_active |-> TRUE]

\* The Google account that owns an email address (googleUser.GoogleID).
GoogleID(email) == <<"google", email>>

\* INSERT INTO users ... as GoogleLogin does it: a Google id and no password
\* hash (password_hash is NULL).
CreateGoogleUserRow(email) ==
    [id |-> UserIdOf(email), email |-> email,
     password_hash |-> <<>>, google_id |-> GoogleID(email), is_active |-> TRUE]

\* FROM users WHERE google_id = $1 AND is_active = TRUE
GetUserByGoogleID(googleID) ==
    {u \in users : u.google_id = googleID /\ u.is_active}

\* UPDATE users SET google_id = $2 WHERE id = $1
LinkGoogleAccount(userID, googleID) ==
    {IF u.id = userID THEN [u EXCEPT !.google_id = googleID] ELSE u : u \in users}

\* INSERT INTO sessions ... ; is_active defaults to TRUE.
CreateSessionRow(userID) ==
    [id |-> Cardinality(sessions) + 1, user_id |-> userID, is_active |-> TRUE]

\* INSERT INTO refresh_tokens ... ; revoked defaults to FALSE.
CreateRefreshTokenRow(userID, sessionID, hash, expiresAt) ==
    [id |-> <<"rt", hash>>, user_id |-> userID,
     session_id |-> sessionID, token_hash |-> hash,
     expires_at |-> expiresAt, revoked |-> FALSE]

\* token_hash is UNIQUE: the insert fails if the hash is already stored.
HashTaken(hash) == \E r \in refresh_tokens : r.token_hash = hash

\* WHERE token_hash = $1 AND revoked = FALSE AND expires_at > NOW()
GetRefreshTokenByHash(hash) ==
    {r \in refresh_tokens :
        r.token_hash = hash /\ ~r.revoked /\ r.expires_at > now}

\* SET revoked = TRUE, revoked_at = NOW()
Revoke(r) == [r EXCEPT !.revoked = TRUE]

\* A faulty variant of RevokeRefreshToken: the UPDATE matches no row.
RevokeRefreshToken_NoRow(id) == refresh_tokens

\* UPDATE refresh_tokens SET revoked = TRUE ... WHERE id = $1
RevokeRefreshToken(id) ==
    {IF r.id = id THEN Revoke(r) ELSE r : r \in refresh_tokens}

\* Faulty variants of RevokeRefreshTokenByHash: the UPDATE matches no row;
\* the UPDATE matches every row of the token's user.
RevokeRefreshTokenByHash_NoRow(hash) == refresh_tokens

RevokeRefreshTokenByHash_WholeUser(hash) ==
    {IF r.user_id = hash[2].uid THEN Revoke(r) ELSE r : r \in refresh_tokens}

\* UPDATE refresh_tokens SET revoked = TRUE ... WHERE token_hash = $1
RevokeRefreshTokenByHash(hash) ==
    {IF r.token_hash = hash THEN Revoke(r) ELSE r : r \in refresh_tokens}

\* A faulty variant of RevokeUserRefreshTokens: the WHERE clause is missing.
RevokeUserRefreshTokens_NoWhere(userID) ==
    {Revoke(r) : r \in refresh_tokens}

\* UPDATE refresh_tokens SET revoked = TRUE ... WHERE user_id = $1
RevokeUserRefreshTokens(userID) ==
    {IF r.user_id = userID THEN Revoke(r) ELSE r : r \in refresh_tokens}


(***************************************************************************)
(* Request goroutines.  calls[p] is the call goroutine p is executing (pc  *)
(* says which round trip comes next), Idle when it executes none.  `last`  *)
(* is the call that returned most recently, with what it returned.         *)
(*   tok   the refresh token presented (RefreshToken, Logout)              *)
(*   uid   claims.UserID / user.ID / the userID argument                   *)
(*   row   storedToken.ID;  sid  storedToken.SessionID or session.ID       *)
(*   found the lookup of tok returned its record (RefreshToken)            *)
(*   res   the error kind returned, "ok" for a nil error                   *)
(*   out   the refresh token returned to the caller: NoToken unless the    *)
(*         call stored a refresh-token record                              *)
(*   reset the password-reset token the call was made with or handed out  *)
(*   pre   history: which of redeemed, loggedOut, swept held tok when the  *)
(*         call started; for a Login that failed, its LoginCase            *)
(***************************************************************************)
Idle ==
    [op |-> "none", pc |-> "idle", tok |-> NoToken, email |-> "", pw |-> "",
     uid |-> 0, row |-> <<>>, sid |-> 0, pre |-> {}, reset |-> 0]

NoCall ==
    [op |-> "none", tok |-> NoToken, found |-> FALSE, pre |-> {},
     res |-> "none", out |-> NoToken, reset |-> 0]

\* A goroutine takes up a new request when it executes none.
Free(p) == calls[p].pc = "idle"

Start(opname, tok) ==
    [Idle EXCEPT !.op = opname, !.tok = tok,
                 !.pre = {h \in {"redeemed", "loggedOut", "swept"} :
                            \/ h = "redeemed" /\ tok \in redeemed
                            \/ h = "loggedOut" /\ tok \in loggedOut
                            \/ h = "swept" /\ tok \in swept}]

\* Call c returns: res is its error kind, out the refresh token it hands out.
Returned(c, res, out) ==
    [op |-> c.op, tok |-> c.tok, found |-> c.row # <<>>, pre |-> c.pre,
     res |-> res, out |-> out, reset |-> c.reset]

\* history: what stands in the way of a login with (email, pw) in the
\* current state of the users table.
LoginCase(email, pw) ==
    {k \in {"noUser", "noPassword", "wrongPassword"} :
        \/ k = "noUser" /\ \A u \in users : u.email # email
        \/ k = "noPassword"
              /\ \E u \in users : u.email = email /\ u.password_hash = <<>>
        \/ k = "wrongPassword"
              /\ \E u \in users : /\ u.email = email
                                  /\ u.password_hash # <<>>
                                  /\ u.password_hash # HashPassword(pw)}

\* history: the refresh tokens whose record was stored (records are never
\* deleted by the calls modelled here).
Issued == {r.token_hash[2] : r \in refresh_tokens}

\* What a client can present as a refresh token: one it was handed, or a
\* string it made up.
Presentable == Issued \cup {Forged}

\* The model's cap on the tables' growth.
WithinBounds ==
    /\ Cardinality(sessions) < MaxSessions
    /\ Cardinality(refresh_tokens) < MaxTokens

UnchangedHistory == UNCHANGED <<redeemed, loggedOut, swept>>

\* Register, Login, RefreshToken, Logout and LogoutAll touch neither the
\* connection registry nor the password-reset tokens nor the tables of the
\* chat, connection and notification services.
UnchangedRegistry == UNCHANGED <<wsVars, resetVars, txVars, chatVars>>

(***************************************************************************)
(* The token issuance shared by Register, Login and RefreshToken:          *)
(*     CreateSession (unless the session is given);                        *)
(*     jwt.GenerateTokenPair;  repo.CreateRefreshToken.                    *)
(* f names the store write that fails for a reason outside the program     *)
(* ("none": the store works).  The UNIQUE(token_hash) violation is the     *)
(* program's own doing and is modelled by HashTaken.                       *)
(* Yields the record [sessions, refresh_tokens, sid, out, res]; out is     *)
(* NoToken unless the refresh-token record was stored.                     *)
(***************************************************************************)
IssueTokens(userID, givenSid, f) ==
    LET newSession == givenSid = 0
        session == CreateSessionRow(userID)
        sessions1 == IF newSession /\ f # "session"
                     THEN sessions \cup {session} ELSE sessions
        sid == IF newSession THEN session.id ELSE givenSid
        refreshToken == GenerateRefreshToken(userID, now)
        tokenHash == HashToken(refreshToken)
        row == CreateRefreshTokenRow(userID, sid, tokenHash, RefreshExpiresAt(now))
    IN  IF newSession /\ f = "session"
        THEN [sessions |-> sessions, refresh_tokens |-> refresh_tokens,
              sid |-> 0, out |-> NoToken, res |-> "StoreError"]
        ELSE IF f = "token" \/ HashTaken(tokenHash)
        THEN [sessions |-> sessions1, refresh_tokens |-> refresh_tokens,
              sid |-> sid, out |-> NoToken, res |-> "StoreError"]
        ELSE [sessions |-> sessions1,
              refresh_tokens |-> refresh_tokens \cup {row},
              sid |-> sid, out |-> refreshToken, res |-> "ok"]

(***************************************************************************)
(* AuthService.Register                                                    *)
(***************************************************************************)
\* UserExistsByEmail, then auth.HashPassword (the handler has validated the
\* password's length, so hashing succeeds).
RegisterCheck(p, email, pw) ==
    /\ Free(p)
    /\ WithinBounds
    /\ IF UserExistsByEmail(email)
       THEN /\ last' = Returned(Start("register", NoToken), "AlreadyExists", NoToken)
            /\ UNCHANGED calls
       ELSE /\ calls' = [calls EXCEPT ![p] =
                 [Start("register", NoToken) EXCEPT
                    !.pc = "create", !.email = email, !.pw = pw]]
            /\ UNCHANGED last
    /\ UNCHANGED <<now, users, sessions, refresh_tokens>>
    /\ UnchangedHistory
    /\ UnchangedRegistry

\* CreateUser, CreateSession, GenerateTokenPair, CreateRefreshToken.
RegisterCreate(p, f) ==
    /\ calls[p].op = "register" /\ calls[p].pc = "create"
    /\ LET c == calls[p]
           user == CreateUserRow(c.email, c.pw)
           t == IssueTokens(user.id, 0, f)
       IN  IF f = "user" \/ UserExistsByEmail(c.email)
           THEN /\ last' = Returned(c, "StoreError", NoToken)
                /\ UNCHANGED <<users, sessions, refresh_tokens>>
           ELSE /\ users' = users \cup {user}
                /\ sessions' = t.sessions
                /\ refresh_tokens' = t.refresh_tokens
                /\ last' = Returned([c EXCEPT !.uid = user.id, !.sid = t.sid],
                                    t.res, t.out)
    /\ calls' = [calls EXCEPT ![p] = Idle]
    /\ UNCHANGED now
    /\ UnchangedHistory
    /\ UnchangedRegistry

(***************************************************************************)
(* AuthService.Login                                                       *)
(***************************************************************************)
\* GetUserByEmail, then VerifyUserPassword.
LoginVerify(p, email, pw) ==
    /\ Free(p)
    /\ WithinBounds
    /\ IF GetUserByEmail(email) = {} \/ VerifyUserPassword(email, pw) = {}
       THEN /\ last' = Returned([Start("login", NoToken) EXCEPT
                                     !.pre = LoginCase(email, pw)],
                                 "InvalidCredentials", NoToken)
            /\ UNCHANGED calls
       ELSE /\ calls' = [calls EXCEPT ![p] =
                 [Start("login", NoToken) EXCEPT
                    !.pc = "issue",
                    !.uid = (CHOOSE u \in GetUserByEmail(email) : TRUE).id]]
            /\ UNCHANGED last
    /\ UNCHANGED <<now, users, sessions, refresh_tokens>>
    /\ UnchangedHistory
    /\ UnchangedRegistry

\* CreateSession, GenerateTokenPair, CreateRefreshToken.
LoginIssue(p, f) ==
    /\ calls[p].op = "login" /\ calls[p].pc = "issue"
    /\ LET c == calls[p]
           t == IssueTokens(c.uid, 0, f)
       IN  /\ sessions' = t.sessions
           /\ refresh_tokens' = t.refresh_tokens
           /\ last' = Returned([c EXCEPT !.sid = t.sid], t.res, t.out)
    /\ calls' = [calls EXCEPT ![p] = Idle]
    /\ UNCHANGED <<now, users>>
    /\ UnchangedHistory
    /\ UnchangedRegistry

(***************************************************************************)
(* AuthService.GoogleLogin, for a Google ID token that verifies and names  *)
(* the account of `email`.                                                 *)
(***************************************************************************)
\* google.VerifyIDToken, GetUserByGoogleID, and GetUserByEmail if no user has
\* the Google id.
GoogleFind(p, email) ==
    /\ Free(p)
    /\ WithinBounds
    /\ LET byGoogle == GetUserByGoogleID(GoogleID(email))
           byEmail == GetUserByEmail(email)
           c == [Start("google", NoToken) EXCEPT !.email = email]
       IN  calls' = [calls EXCEPT ![p] =
                IF byGoogle # {}
                THEN [c EXCEPT !.pc = "issue",
                               !.uid = (CHOOSE u \in byGoogle : TRUE).id]
                ELSE IF byEmail # {}
                THEN [c EXCEPT !.pc = "link",
                               !.uid = (CHOOSE u \in byEmail : TRUE).id]
                ELSE [c EXCEPT !.pc = "create"]]
    /\ UNCHANGED <<now, users, sessions, refresh_tokens, last>>
    /\ UnchangedHistory
    /\ UnchangedRegistry

\* CreateUser or LinkGoogleAccount (unless the user was found by Google id),
\* then CreateSession, GenerateTokenPair, CreateRefreshToken.
GoogleIssue(p) ==
    /\ calls[p].op = "google"
    /\ LET c == calls[p]
           user == CreateGoogleUserRow(c.email)
           uid == IF c.pc = "create" THEN user.id ELSE c.uid
           t == IssueTokens(uid, 0, "none")
       IN  IF c.pc = "create" /\ UserExistsByEmail(c.email)
           THEN /\ last' = Returned(c, "StoreError", NoToken)
                /\ UNCHANGED <<users, sessions, refresh_tokens>>
           ELSE /\ users' = IF c.pc = "create" THEN users \cup {user}
                            ELSE IF c.pc = "link"
                            THEN LinkGoogleAccount(c.uid, GoogleID(c.email))
                            ELSE users
                /\ sessions' = t.sessions
                /\ refresh_tokens' = t.refresh_tokens
                /\ last' = Returned([c EXCEPT !.uid = uid, !.sid = t.sid],
                                    t.res, t.out)
    /\ calls' = [calls EXCEPT ![p] = Idle]
    /\ UNCHANGED now
    /\ UnchangedHistory
    /\ UnchangedRegistry

(***************************************************************************)
(* AuthMiddleware: a request with "Authorization: Bearer tok" reaches the  *)
(* handler behind it ("ok") or is answered 401 with "token has expired"    *)
(* ("Expired") or "invalid token" ("Invalid").                             *)
(***************************************************************************)
\* A faulty variant: a token is accepted only while its user has a
\* refresh-token record that is not revoked.
AuthMiddleware_ChecksRevocation(tok) ==
    /\ last' = Returned(Start("authenticate", tok),
                        IF ValidateAccessToken(tok, now) = "ok"
                           /\ \A r \in refresh_tokens :
                                 r.user_id = tok.uid => r.revoked
                        THEN "Invalid"
                        ELSE ValidateAccessToken(tok, now), NoToken)
    /\ UNCHANGED <<now, users, sessions, refresh_tokens, calls>>
    /\ UnchangedHistory
    /\ UnchangedRegistry

AuthMiddleware(tok) ==
    /\ last' = Returned(Start("authenticate", tok),
                        ValidateAccessToken(tok, now), NoToken)
    /\ UNCHANGED <<now, users, sessions, refresh_tokens, calls>>
    /\ UnchangedHistory
    /\ UnchangedRegistry

(***************************************************************************)
(* AuthService.RefreshToken                                                *)
(***************************************************************************)
\* A faulty variant of RefreshLookup: the record of a token that fails
\* verification is revoked.
RefreshLookup_RevokesUnverified(p, tok, f) ==
    /\ Free(p)
    /\ LET c == Start("refresh", tok)
           v == ValidateRefreshToken(tok, now)
           found == IF f = "lookup" THEN {}
                    ELSE GetRefreshTokenByHash(HashToken(tok))
           storedToken == CHOOSE r \in found : TRUE
       IN  IF v # "ok"
           THEN /\ last' = Returned(c, v, NoToken)
                /\ refresh_tokens' = RevokeRefreshTokenByHash(HashToken(tok))
                /\ UNCHANGED calls
           ELSE IF found = {}
           THEN /\ last' = Returned([c EXCEPT !.uid = tok.uid], "Revoked", NoToken)
                /\ UNCHANGED <<calls, refresh_tokens>>
           ELSE IF storedToken.revoked
           THEN /\ last' = Returned([c EXCEPT !.uid = tok.uid], "Revoked", NoToken)
                /\ refresh_tokens' = RevokeUserRefreshTokens(tok.uid)
                /\ UNCHANGED calls
           ELSE /\ Cardinality(refresh_tokens) < MaxTokens
                /\ calls' = [calls EXCEPT ![p] =
                     [c EXCEPT !.pc = "revoke", !.uid = tok.uid,
                               !.row = storedToken.id,
                               !.sid = storedToken.session_id]]
                /\ UNCHANGED <<last, refresh_tokens>>
    /\ UNCHANGED <<now, users, sessions>>
    /\ UnchangedHistory
    /\ UnchangedRegistry

\* A faulty variant of RefreshLookup: a token without a usable record is
\* reported as Invalid.
RefreshLookup_NotFoundIsInvalid(p, tok, f) ==
    /\ Free(p)
    /\ LET c == Start("refresh", tok)
           v == ValidateRefreshToken(tok, now)
           found == IF f = "lookup" THEN {}
                    ELSE GetRefreshTokenByHash(HashToken(tok))
           storedToken == CHOOSE r \in found : TRUE
       IN  IF v # "ok"
           THEN /\ last' = Returned(c, v, NoToken)
                /\ UNCHANGED <<calls, refresh_tokens>>
           ELSE IF found = {}
           THEN /\ last' = Returned([c EXCEPT !.uid = tok.uid], "Invalid", NoToken)
                /\ UNCHANGED <<calls, refresh_tokens>>
           ELSE IF storedToken.revoked
           THEN /\ last' = Returned([c EXCEPT !.uid = tok.uid], "Revoked", NoToken)
                /\ refresh_tokens' = RevokeUserRefreshTokens(tok.uid)
                /\ UNCHANGED calls
           ELSE /\ Cardinality(refresh_tokens) < MaxTokens
                /\ calls' = [calls EXCEPT ![p] =
                     [c EXCEPT !.pc = "revoke", !.uid = tok.uid,
                               !.row = storedToken.id,
                               !.sid = storedToken.session_id]]
                /\ UNCHANGED <<last, refresh_tokens>>
    /\ UNCHANGED <<now, users, sessions>>
    /\ UnchangedHistory
    /\ UnchangedRegistry

\* jwt.ValidateRefreshToken, repo.GetRefreshTokenByHash (any error of the
\* lookup is returned as ErrTokenRevoked), and the storedToken.Revoked branch
\* with its RevokeUserRefreshTokens.
RefreshLookup(p, tok, f) ==
    /\ Free(p)
    /\ LET c == Start("refresh", tok)
           v == ValidateRefreshToken(tok, now)
           found == IF f = "lookup" THEN {}
                    ELSE GetRefreshTokenByHash(HashToken(tok))
           storedToken == CHOOSE r \in found : TRUE
       IN  IF v # "ok"
           THEN /\ last' = Returned(c, v, NoToken)
                /\ UNCHANGED <<calls, refresh_tokens>>
           ELSE IF found = {}
           THEN /\ last' = Returned([c EXCEPT !.uid = tok.uid], "Revoked", NoToken)
                /\ UNCHANGED <<calls, refresh_tokens>>
           ELSE IF storedToken.revoked
           THEN /\ last' = Returned([c EXCEPT !.uid = tok.uid], "Revoked", NoToken)
                /\ refresh_tokens' = RevokeUserRefreshTokens(tok.uid)
                /\ UNCHANGED calls
           ELSE /\ Cardinality(refresh_tokens) < MaxTokens
                /\ calls' = [calls EXCEPT ![p] =
                     [c EXCEPT !.pc = "revoke", !.uid = tok.uid,
                               !.row = storedToken.id,
                               !.sid = storedToken.session_id]]
                /\ UNCHANGED <<last, refresh_tokens>>
    /\ UNCHANGED <<now, users, sessions>>
    /\ UnchangedHistory
    /\ UnchangedRegistry

\* _ = s.repo.RevokeRefreshToken(ctx, storedToken.ID): the error is dropped.
RefreshRevoke(p, f) ==
    /\ calls[p].op = "refresh" /\ calls[p].pc = "revoke"
    /\ refresh_tokens' = IF f = "revoke" THEN refresh_tokens
                         ELSE RevokeRefreshToken(calls[p].row)
    /\ calls' = [calls EXCEPT ![p].pc = "issue"]
    /\ UNCHANGED <<now, users, sessions, last>>
    /\ UnchangedHistory
    /\ UnchangedRegistry

\* A faulty variant of RefreshIssue: a session is created for every new pair.
RefreshIssue_NewSession(p, f, H) ==
    /\ calls[p].op = "refresh" /\ calls[p].pc = "issue"
    /\ LET c == calls[p]
           t == IssueTokens(c.uid, 0, f)
       IN  IF f = "user" \/ GetUserByID(c.uid) = {}
           THEN /\ last' = Returned(c, "UserNotFound", NoToken)
                /\ UNCHANGED <<sessions, refresh_tokens, redeemed>>
           ELSE /\ sessions' = t.sessions
                /\ refresh_tokens' = t.refresh_tokens
                /\ redeemed' = IF t.res = "ok" /\ "redeemed" \in H
                               THEN redeemed \cup {c.tok} ELSE redeemed
                /\ last' = Returned([c EXCEPT !.sid = t.sid], t.res, t.out)
    /\ calls' = [calls EXCEPT ![p] = Idle]
    /\ UNCHANGED <<now, users, loggedOut, swept>>
    /\ UnchangedRegistry

\* GetUserByID, the session of the stored token (a new one for a legacy
\* token without session), GenerateTokenPair, CreateRefreshToken.
RefreshIssue(p, f, H) ==
    /\ calls[p].op = "refresh" /\ calls[p].pc = "issue"
    /\ LET c == calls[p]
           t == IssueTokens(c.uid, c.sid, f)
       IN  IF f = "user" \/ GetUserByID(c.uid) = {}
           THEN /\ last' = Returned(c, "UserNotFound", NoToken)
                /\ UNCHANGED <<sessions, refresh_tokens, redeemed>>
           ELSE /\ sessions' = t.sessions
                /\ refresh_tokens' = t.refresh_tokens
                /\ redeemed' = IF t.res = "ok" /\ "redeemed" \in H
                               THEN redeemed \cup {c.tok} ELSE redeemed
                /\ last' = Returned([c EXCEPT !.sid = t.sid], t.res, t.out)
    /\ calls' = [calls EXCEPT ![p] = Idle]
    /\ UNCHANGED <<now, users, loggedOut, swept>>
    /\ UnchangedRegistry

(***************************************************************************)
(* AuthService.Logout and AuthService.LogoutAll: one UPDATE each.          *)
(***************************************************************************)
Logout(p, tok, f, H) ==
    /\ Free(p)
    /\ tok \in Presentable
    /\ refresh_tokens' = IF f = "revoke" THEN refresh_tokens
                         ELSE RevokeRefreshTokenByHash(HashToken(tok))
    /\ loggedOut' = IF f # "revoke" /\ "loggedOut" \in H /\ tok \in Issued
                    THEN loggedOut \cup {tok} ELSE loggedOut
    /\ last' = Returned(Start("logout", tok),
                        IF f = "revoke" THEN "StoreError" ELSE "ok", NoToken)
    /\ UNCHANGED <<now, users, sessions, calls, redeemed, swept>>
    /\ UnchangedRegistry

\* The handler takes userID from the caller's access token.
LogoutAll(p, userID, f, H) ==
    /\ Free(p)
    /\ userID \in {u.id : u \in users}
    /\ refresh_tokens' = IF f = "revoke" THEN refresh_tokens
                         ELSE RevokeUserRefreshTokens(userID)
    /\ swept' = IF f # "revoke" /\ "swept" \in H
                THEN swept \cup {t \in Issued : t.uid = userID} ELSE swept
    /\ last' = Returned([Start("logoutAll", NoToken) EXCEPT !.uid = userID],
                        IF f = "revoke" THEN "StoreError" ELSE "ok", NoToken)
    /\ UNCHANGED <<now, users, sessions, calls, redeemed, loggedOut>>
    /\ UnchangedRegistry

(***************************************************************************)
(* Password reset.  A reset token is auth.GenerateRandomToken(32): 32      *)
(* random bytes, never equal to a token generated before; the model        *)
(* numbers the tokens in the order of their generation, and 0 is a string  *)
(* that a client made up.                                                  *)
(***************************************************************************)
GenerateRandomToken == Cardinality(password_reset_tokens) + 1

\* INSERT INTO password_reset_tokens ... ; used defaults to FALSE.
CreatePasswordResetTokenRow(userID, hash, expiresAt) ==
    [id |-> <<"prt", hash>>, user_id |-> userID, token_hash |-> hash,
     expires_at |-> expiresAt, used |-> FALSE]

\* FROM password_reset_tokens WHERE token_hash = $1
GetPasswordResetToken(hash) ==
    {r \in password_reset_tokens : r.token_hash = hash}

\* A faulty variant of MarkPasswordResetTokenUsed: the UPDATE matches no row.
MarkPasswordResetTokenUsed_NoRow(id) == password_reset_tokens

\* UPDATE password_reset_tokens SET used = TRUE WHERE id = $1
MarkPasswordResetTokenUsed(id) ==
    {IF r.id = id THEN [r EXCEPT !.used = TRUE] ELSE r :
        r \in password_reset_tokens}

\* UPDATE users SET password_hash = $2 WHERE id = $1
UpdateUserPassword(userID, hash) ==
    {IF u.id = userID THEN [u EXCEPT !.password_hash = hash] ELSE u :
        u \in users}

UnchangedReset ==
    UNCHANGED <<now, sessions, calls, redeemed, loggedOut, wsVars, chatVars, txVars>>

\* AuthService.InitiatePasswordReset: GetUserByEmail, GenerateRandomToken,
\* CreatePasswordResetToken.  f = "reset": the store rejects the insert.
InitiatePasswordReset(p, email, f) ==
    /\ Free(p)
    /\ Cardinality(password_reset_tokens) < MaxResets
    /\ LET found == GetUserByEmail(email)
           user == CHOOSE u \in found : TRUE
           token == GenerateRandomToken
           c == Start("initiateReset", NoToken)
       IN  IF found = {}
           THEN /\ last' = Returned(c, "UserNotFound", NoToken)
                /\ UNCHANGED password_reset_tokens
           ELSE IF f = "reset"
           THEN /\ last' = Returned(c, "StoreError", NoToken)
                /\ UNCHANGED password_reset_tokens
           ELSE /\ password_reset_tokens' = password_reset_tokens \cup
                      {CreatePasswordResetTokenRow(user.id, HashToken(token),
                                                   now + ResetExpiry)}
                /\ last' = Returned([c EXCEPT !.uid = user.id, !.reset = token],
                                    "ok", NoToken)
    /\ UNCHANGED <<users, refresh_tokens, swept, resetDone>>
    /\ UnchangedReset

\* AuthService.ResetPassword: GetPasswordResetToken (any error of the lookup
\* is returned as ErrInvalidToken), the expiry and the used flag, then
\* auth.HashPassword (the handler has validated the password).
ResetLookup(p, token, pw, f) ==
    /\ Free(p)
    /\ LET found == IF f = "lookup" THEN {}
                    ELSE GetPasswordResetToken(HashToken(token))
           resetToken == CHOOSE r \in found : TRUE
           c == [Start("reset", NoToken) EXCEPT !.reset = token, !.pw = pw]
       IN  IF found = {}
           THEN /\ last' = Returned(c, "Invalid", NoToken)
                /\ UNCHANGED calls
           ELSE IF now > resetToken.expires_at
           THEN /\ last' = Returned(c, "Expired", NoToken)
                /\ UNCHANGED calls
           ELSE IF resetToken.used
           THEN /\ last' = Returned(c, "Invalid", NoToken)
                /\ UNCHANGED calls
           ELSE /\ calls' = [calls EXCEPT ![p] =
                      [c EXCEPT !.pc = "update", !.row = resetToken.id,
                                !.uid = resetToken.user_id]]
                /\ UNCHANGED last
    /\ UNCHANGED <<now, users, sessions, refresh_tokens, redeemed, loggedOut,
                   swept, wsVars, chatVars, resetVars, txVars>>

\* repo.UpdateUserPassword; its error ends the call.
ResetUpdate(p, f) ==
    /\ calls[p].op = "reset" /\ calls[p].pc = "update"
    /\ IF f = "user"
       THEN /\ last' = Returned(calls[p], "StoreError", NoToken)
            /\ calls' = [calls EXCEPT ![p] = Idle]
            /\ UNCHANGED users
       ELSE /\ users' = UpdateUserPassword(calls[p].uid, HashPassword(calls[p].pw))
            /\ calls' = [calls EXCEPT ![p].pc = "mark"]
            /\ UNCHANGED last
    /\ UNCHANGED <<now, sessions, refresh_tokens, redeemed, loggedOut, swept,
                   wsVars, chatVars, resetVars, txVars>>

\* _ = s.repo.MarkPasswordResetTokenUsed(ctx, resetToken.ID): the error is
\* dropped.
ResetMark(p, f) ==
    /\ calls[p].op = "reset" /\ calls[p].pc = "mark"
    /\ password_reset_tokens' = IF f = "mark" THEN password_reset_tokens
                                ELSE MarkPasswordResetTokenUsed(calls[p].row)
    /\ calls' = [calls EXCEPT ![p].pc = "sweep"]
    /\ UNCHANGED <<now, users, sessions, refresh_tokens, last, redeemed,
                   loggedOut, swept, wsVars, chatVars, txVars, resetDone>>

\* _ = s.repo.RevokeUserRefreshTokens(ctx, resetToken.UserID): the error is
\* dropped; return nil.
ResetRevoke(p, f, H) ==
    /\ calls[p].op = "reset" /\ calls[p].pc = "sweep"
    /\ refresh_tokens' = IF f = "revoke" THEN refresh_tokens
                         ELSE RevokeUserRefreshTokens(calls[p].uid)
    /\ last' = Returned(calls[p], "ok", NoToken)
    /\ calls' = [calls EXCEPT ![p] = Idle]
    /\ resetDone' = resetDone \cup {calls[p].reset}
    /\ swept' = IF "reset" \in H
                THEN swept \cup {t \in Issued : t.uid = calls[p].uid} ELSE swept
    /\ UNCHANGED <<now, users, sessions, redeemed, loggedOut, wsVars, chatVars, txVars,
                   password_reset_tokens>>

\* The password-reset requests of goroutines P.  A client presents a reset
\* token that was generated, or a string it made up.
ResetNext(P, F, H) ==
    \/ \E p \in P, e \in Emails, f \in F : InitiatePasswordReset(p, e, f)
    \/ \E p \in P, token \in 0..MaxResets, pw \in Passwords, f \in F :
          ResetLookup(p, token, pw, f)
    \/ \E p \in P, f \in F : ResetUpdate(p, f)
    \/ \E p \in P, f \in F : ResetMark(p, f)
    \/ \E p \in P, f \in F : ResetRevoke(p, f, H)

\* The wall clock moves on by a second.
Tick ==
    /\ now < MaxTime
    /\ now' = now + 1
    /\ UNCHANGED <<users, sessions, refresh_tokens, calls, last>>
    /\ UnchangedHistory
    /\ UnchangedRegistry

(***************************************************************************)
(* The program after start-up: empty tables, no request in flight.         *)
(***************************************************************************)
AuthInit ==
    /\ now = 0
    /\ users = {}
    /\ sessions = {}
    /\ refresh_tokens = {}
    /\ calls = [p \in Procs |-> Idle]
    /\ last = NoCall
    /\ redeemed = {}
    /\ loggedOut = {}
    /\ swept = {}
    /\ password_reset_tokens = {}
    /\ resetDone = {}

\* The requests of goroutines P and the clock.  Clients attempt the
\* registrations R, the store fails in the ways F allows, and the histories
\* named in H are recorded.
AuthNext(P, R, F, H) ==
    \/ \E p \in P, r \in R : RegisterCheck(p, r[1], r[2])
    \/ \E p \in P, f \in F : RegisterCreate(p, f)
    \/ \E p \in P, e \in Emails, pw \in Passwords : LoginVerify(p, e, pw)
    \/ \E p \in P, f \in F : LoginIssue(p, f)
    \/ \E p \in P, tok \in Presentable, f \in F : RefreshLookup(p, tok, f)
    \/ \E p \in P, f \in F : RefreshRevoke(p, f)
    \/ \E p \in P, f \in F : RefreshIssue(p, f, H)
    \/ \E p \in P, tok \in Presentable, f \in F : Logout(p, tok, f, H)
    \/ \E p \in P, u \in UserIds, f \in F : LogoutAll(p, u, f, H)
    \/ Tick

(***************************************************************************)
(* internal/api/websocket_manager.go: the connection registry.             *)
(*                                                                         *)
(* client[c] is the c-th *Client created by ChatHandler.HandleWebSocket,   *)
(* with the goroutines that belong to it:                                  *)
(*   UserID   Client.UserID ("" while the connection is not opened)        *)
(*   Send     the messages buffered in the channel Client.Send             *)
(*   closed   close(client.Send) has been executed                         *)
(*   closedAt history: the number of dispatches made before that close     *)
(*   up       Client.Conn can still be read and written                    *)
(*   handler  "none", "register" (HandleWebSocket is blocked in            *)
(*            `h.wsManager.register <- client`), "done"                    *)
(*   reader   ReadPump: "none", "read", "unregister" (blocked in           *)
(*            `manager.unregister <- c`), "exit"                           *)
(*   writer   WritePump: "none", "range" (at `for message := range`),      *)
(*            "batch" (in the inner loop), "exit"                          *)
(*   frame    the messages written to the current frame writer w           *)
(*   left     n - i of WritePump's inner loop                              *)
(*   wire     the messages of the frames sent to the peer so far           *)
(* A message is the serialized event; it carries the dispatch's number and *)
(* the user it was dispatched to.                                          *)
(*                                                                         *)
(* register and unregister are unbuffered channels: a send completes in    *)
(* the step in which Run receives.  The sections of Run under mu.Lock and  *)
(* the body of SendToUser under mu.RLock exclude each other and are one    *)
(* step each.  Nothing in the program sends on the channel broadcast, so   *)
(* that case of Run's select is never ready.                               *)
(***************************************************************************)
NoClient ==
    [UserID |-> "", Send |-> <<>>, closed |-> FALSE, closedAt |-> 0,
     up |-> FALSE,
     handler |-> "none", reader |-> "none", writer |-> "none",
     frame |-> <<>>, left |-> 0, wire |-> <<>>]

\* client := &Client{..., Send: make(chan []byte, 256), UserID: userID}
NewClient(userID) ==
    [NoClient EXCEPT !.UserID = userID, !.up = TRUE, !.handler = "register"]

Opened == {c \in Clients : client[c].handler # "none"}

RunIdle == [pc |-> "select", c |-> 0]

Running == panic = "none"

UnchangedAuth == UNCHANGED <<authVars, resetVars, txVars, chatVars>>

\* ChatHandler.HandleWebSocket up to its send on the channel register.
HandleWebSocket(userID) ==
    /\ Running
    /\ Opened # Clients
    /\ LET c == CHOOSE i \in Clients \ Opened : \A j \in Clients \ Opened : i <= j
       IN  client' = [client EXCEPT ![c] = NewClient(userID)]
    /\ UNCHANGED <<clients, userClients, run, sent, panic>>
    /\ UnchangedAuth

\* Run: `case client := <-m.register`.  The handler's send returns, and the
\* handler starts WritePump and ReadPump.
RunReceiveRegister(c) ==
    /\ Running
    /\ run.pc = "select"
    /\ client[c].handler = "register"
    /\ run' = [pc |-> "register", c |-> c]
    /\ client' = [client EXCEPT ![c].handler = "done",
                                ![c].writer = "range",
                                ![c].reader = "read"]
    /\ UNCHANGED <<clients, userClients, sent, panic>>
    /\ UnchangedAuth

\* A faulty variant of RunRegister: the connection is put into m.clients
\* only.
RunRegister_GlobalOnly ==
    /\ Running
    /\ run.pc = "register"
    /\ clients' = clients \cup {run.c}
    /\ run' = RunIdle
    /\ UNCHANGED <<client, userClients, sent, panic>>
    /\ UnchangedAuth

\* Run: the register case, from m.mu.Lock() to m.mu.Unlock().
RunRegister ==
    /\ Running
    /\ run.pc = "register"
    /\ LET c == run.c
           u == client[c].UserID
           group == IF u \in DOMAIN userClients THEN userClients[u] ELSE {}
       IN  /\ clients' = clients \cup {c}
           /\ userClients' = [v \in DOMAIN userClients \cup {u} |->
                                IF v = u THEN group \cup {c} ELSE userClients[v]]
    /\ run' = RunIdle
    /\ UNCHANGED <<client, sent, panic>>
    /\ UnchangedAuth

\* Run: `case client := <-m.unregister`.  ReadPump's deferred send returns;
\* ReadPump closes the connection and ends.
RunReceiveUnregister(c) ==
    /\ Running
    /\ run.pc = "select"
    /\ client[c].reader = "unregister"
    /\ run' = [pc |-> "unregister", c |-> c]
    /\ client' = [client EXCEPT ![c].reader = "exit", ![c].up = FALSE]
    /\ UNCHANGED <<clients, userClients, sent, panic>>
    /\ UnchangedAuth

\* A faulty variant of RunUnregister: the connection is deleted from
\* m.clients and its queue closed, but it stays in its user's group (as in
\* the default case of Run's broadcast loop).
RunUnregister_KeepsGroup ==
    /\ Running
    /\ run.pc = "unregister"
    /\ LET c == run.c
       IN  IF c \in clients
           THEN /\ clients' = clients \ {c}
                /\ client' = [client EXCEPT ![c].closed = TRUE,
                                            ![c].closedAt = sent]
           ELSE UNCHANGED <<client, clients>>
    /\ run' = RunIdle
    /\ UNCHANGED <<userClients, sent, panic>>
    /\ UnchangedAuth

\* A faulty variant of RunUnregister: the user's group is kept when its last
\* connection is deleted from it.
RunUnregister_KeepsEmptyGroup ==
    /\ Running
    /\ run.pc = "unregister"
    /\ LET c == run.c
           u == client[c].UserID
       IN  IF c \in clients
           THEN /\ clients' = clients \ {c}
                /\ userClients' =
                     IF u \notin DOMAIN userClients THEN userClients
                     ELSE [userClients EXCEPT ![u] = @ \ {c}]
                /\ client' = [client EXCEPT ![c].closed = TRUE,
                                            ![c].closedAt = sent]
           ELSE UNCHANGED <<client, clients, userClients>>
    /\ run' = RunIdle
    /\ UNCHANGED <<sent, panic>>
    /\ UnchangedAuth

\* Run: the unregister case, from m.mu.Lock() to m.mu.Unlock().
RunUnregister ==
    /\ Running
    /\ run.pc = "unregister"
    /\ LET c == run.c
           u == client[c].UserID
           userMap == userClients[u] \ {c}
       IN  IF c \in clients
           THEN /\ clients' = clients \ {c}
                /\ userClients' =
                     IF u \notin DOMAIN userClients THEN userClients
                     ELSE IF userMap = {}
                     THEN [v \in DOMAIN userClients \ {u} |-> userClients[v]]
                     ELSE [userClients EXCEPT ![u] = userMap]
                /\ IF client[c].closed
                   THEN /\ panic' = "close of closed channel"
                        /\ UNCHANGED client
                   ELSE /\ client' = [client EXCEPT ![c].closed = TRUE,
                                                      ![c].closedAt = sent]
                        /\ UNCHANGED panic
           ELSE UNCHANGED <<client, clients, userClients, panic>>
    /\ run' = RunIdle
    /\ UNCHANGED sent
    /\ UnchangedAuth

\* A faulty variant of Enqueue: a full queue is closed (as in the default
\* case of Run's broadcast loop).
Enqueue_CloseWhenFull(cl, msg) ==
    IF Len(cl.Send) < SendBuffer THEN [cl EXCEPT !.Send = Append(@, msg)]
    ELSE [cl EXCEPT !.closed = TRUE]

\* select { case client.Send <- jsonMsg: default: }
Enqueue(cl, msg) ==
    IF Len(cl.Send) < SendBuffer THEN [cl EXCEPT !.Send = Append(@, msg)] ELSE cl

\* A faulty variant of SendToUser: the event goes to every registered
\* connection instead of the connections of userID.
SendToUser_Everyone(userID) ==
    /\ Running
    /\ sent < MaxEvents
    /\ LET jsonMsg == [n |-> sent + 1, to |-> userID]
       IN  client' = [c \in Clients |->
                        IF c \in clients THEN Enqueue(client[c], jsonMsg)
                        ELSE client[c]]
    /\ sent' = sent + 1
    /\ UNCHANGED <<clients, userClients, run, panic>>
    /\ UnchangedAuth

\* A faulty variant of SendToUser: the loop over the user's connections
\* ends after the first of them.
SendToUser_FirstOnly(userID) ==
    /\ Running
    /\ sent < MaxEvents
    /\ LET jsonMsg == [n |-> sent + 1, to |-> userID]
           group == IF userID \in DOMAIN userClients
                    THEN userClients[userID] ELSE {}
           targets == IF group = {} THEN {}
                      ELSE {CHOOSE c \in group : \A d \in group : c <= d}
       IN  client' = [c \in Clients |->
                        IF c \in targets THEN Enqueue(client[c], jsonMsg)
                        ELSE client[c]]
    /\ sent' = sent + 1
    /\ UNCHANGED <<clients, userClients, run, panic>>
    /\ UnchangedAuth

\* WebSocketManager.SendToUser, from m.mu.RLock() to m.mu.RUnlock().  A send
\* on a closed channel panics.  (What the calling handler does with its own
\* state in the same step is the caller's to say.)
SendToUser(userID) ==
    /\ Running
    /\ sent < MaxEvents
    /\ LET jsonMsg == [n |-> sent + 1, to |-> userID]
           targets == IF userID \in DOMAIN userClients
                      THEN userClients[userID] ELSE {}
       IN  IF \E c \in targets : client[c].closed
           THEN /\ panic' = "send on closed channel"
                /\ UNCHANGED client
           ELSE /\ client' = [c \in Clients |->
                                IF c \in targets THEN Enqueue(client[c], jsonMsg)
                                ELSE client[c]]
                /\ UNCHANGED panic
    /\ sent' = sent + 1
    /\ UNCHANGED <<clients, userClients, run>>
    /\ UNCHANGED <<authVars, resetVars, txVars>>

\* The peer goes away or the network fails: reads and writes on Conn fail
\* from now on.
PeerClose(c) ==
    /\ Running
    /\ c \in Opened
    /\ client[c].up
    /\ client' = [client EXCEPT ![c].up = FALSE]
    /\ UNCHANGED <<clients, userClients, run, sent, panic>>
    /\ UnchangedAuth

\* A faulty variant of ReadPumpFail: ReadPump ends without sending its
\* client on the channel unregister.
ReadPumpFail_NoUnregister(c) ==
    /\ Running
    /\ client[c].reader = "read"
    /\ ~client[c].up
    /\ client' = [client EXCEPT ![c].reader = "exit"]
    /\ UNCHANGED <<clients, userClients, run, sent, panic>>
    /\ UnchangedAuth

\* ReadPump: c.Conn.ReadMessage() returns an error; the loop ends and the
\* deferred function starts its send on the channel unregister.
ReadPumpFail(c) ==
    /\ Running
    /\ client[c].reader = "read"
    /\ ~client[c].up
    /\ client' = [client EXCEPT ![c].reader = "unregister"]
    /\ UNCHANGED <<clients, userClients, run, sent, panic>>
    /\ UnchangedAuth

\* WritePump ends a frame: w.Close() sends the messages written to w, or
\* fails and ends the loop.  cl is the connection after the last w.Write.
CloseFrame(cl) ==
    IF cl.up
    THEN [cl EXCEPT !.wire = @ \o cl.frame, !.frame = <<>>, !.writer = "range"]
    ELSE [cl EXCEPT !.frame = <<>>, !.writer = "exit"]

\* WritePump: `for message := range c.Send` receives a message;
\* c.Conn.NextWriter (which fails on a dead connection); w.Write(message);
\* n := len(c.Send); and w.Close() if n is 0.
WritePumpReceive(c) ==
    /\ Running
    /\ client[c].writer = "range"
    /\ client[c].Send # <<>>
    /\ LET cl == client[c]
           n == Len(cl.Send) - 1
           written == [cl EXCEPT !.Send = Tail(@), !.frame = <<Head(cl.Send)>>,
                                 !.left = n, !.writer = "batch"]
       IN  client' = [client EXCEPT ![c] =
                        IF ~cl.up THEN [cl EXCEPT !.Send = Tail(@), !.writer = "exit"]
                        ELSE IF n = 0 THEN CloseFrame(written)
                        ELSE written]
    /\ UNCHANGED <<clients, userClients, run, sent, panic>>
    /\ UnchangedAuth

\* A faulty variant of WritePumpBatch: the message received is put in front
\* of those already written to the frame.
WritePumpBatch_InFront(c) ==
    /\ Running
    /\ client[c].writer = "batch"
    /\ client[c].left > 0
    /\ LET cl == client[c]
           written == [cl EXCEPT !.Send = Tail(@),
                                 !.frame = <<Head(cl.Send)>> \o @,
                                 !.left = @ - 1]
       IN  client' = [client EXCEPT ![c] =
                        IF written.left = 0 THEN CloseFrame(written) ELSE written]
    /\ UNCHANGED <<clients, userClients, run, sent, panic>>
    /\ UnchangedAuth

\* WritePump: one round w.Write(<-c.Send) of the inner loop, and w.Close()
\* after the last round.
WritePumpBatch(c) ==
    /\ Running
    /\ client[c].writer = "batch"
    /\ client[c].left > 0
    /\ LET cl == client[c]
           written == [cl EXCEPT !.Send = Tail(@),
                                 !.frame = Append(@, Head(cl.Send)),
                                 !.left = @ - 1]
       IN  client' = [client EXCEPT ![c] =
                        IF written.left = 0 THEN CloseFrame(written) ELSE written]
    /\ UNCHANGED <<clients, userClients, run, sent, panic>>
    /\ UnchangedAuth

\* WritePump: the range loop ends on the closed, drained channel; the close
\* message is written and the deferred c.Conn.Close() runs.
WritePumpClosed(c) ==
    /\ Running
    /\ client[c].writer = "range"
    /\ client[c].Send = <<>>
    /\ client[c].closed
    /\ client' = [client EXCEPT ![c].writer = "exit", ![c].up = FALSE]
    /\ UNCHANGED <<clients, userClients, run, sent, panic>>
    /\ UnchangedAuth

\* NewWebSocketManager, and `go wsManager.Run()` in main.
WSInit ==
    /\ client = [c \in Clients |-> NoClient]
    /\ clients = {}
    /\ userClients = [v \in {} |-> {}]
    /\ run = RunIdle
    /\ sent = 0
    /\ panic = "none"

WSNext ==
    \/ \E u \in WSUsers : HandleWebSocket(u)
    \/ \E c \in Clients : RunReceiveRegister(c)
    \/ RunRegister
    \/ \E c \in Clients : RunReceiveUnregister(c)
    \/ RunUnregister
    \/ \E u \in WSUsers : SendToUser(u) /\ UNCHANGED chatVars
    \/ \E c \in Clients : PeerClose(c)
    \/ \E c \in Clients : ReadPumpFail(c)
    \/ \E c \in Clients : WritePumpReceive(c)
    \/ \E c \in Clients : WritePumpBatch(c)
    \/ \E c \in Clients : WritePumpClosed(c)

(***************************************************************************)
(* The chat, connection and notification services.  Users are the users    *)
(* of the connection registry; there is one chat, of which both are        *)
(* participants.  Requests of these services are handled one at a time;    *)
(* the notification goroutines they start run alongside.                   *)
(*                                                                         *)
(* f names the store access or push that fails for a reason outside the    *)
(* program: "message" (CreateMessage), "chat" (GetChatByID), "connection"  *)
(* (a statement on connections), "notification" (CreateNotification),      *)
(* "tokens" (GetFCMTokens), "push" (fcmClient.Send); "none": all work.      *)
(***************************************************************************)
\* chat.Users as GetChatByID returns them.
ChatUsers == <<"A", "B">>

NoRequest == [op |-> "none", pc |-> "idle", user |-> "", msg |-> 0, todo |-> <<>>]

NoReply == [op |-> "none", res |-> "none", user |-> "", msg |-> 0, conn |-> <<>>]

\* INSERT INTO messages ... RETURNING id
CreateMessageRow(senderID) ==
    [id |-> Cardinality(messages) + 1, chat_id |-> 1, sender_id |-> senderID]

\* INSERT INTO notifications ...
CreateNotificationRow(userID, typeStr) ==
    [id |-> Cardinality(notifications) + 1, user_id |-> userID, type |-> typeStr]

\* FROM connections WHERE id = $1; a connection's id stands for the pair
\* (requester_id, receiver_id), which is unique.
GetConnectionByID(connectionID) == {c \in connections : c.id = connectionID}

\* A faulty variant of UpdateConnectionStatus: the WHERE clause is missing.
UpdateConnectionStatus_NoWhere(connectionID, status) ==
    {[c EXCEPT !.status = status] : c \in connections}

\* UPDATE connections SET status = $2 WHERE id = $1
UpdateConnectionStatus(connectionID, status) ==
    {IF c.id = connectionID THEN [c EXCEPT !.status = status] ELSE c :
        c \in connections}

\* PostgresRepository.CreateConnectionRequest: a pending request in the
\* reverse direction is accepted; otherwise INSERT ... 'pending' ON CONFLICT
\* (requester_id, receiver_id) DO UPDATE SET updated_at = NOW().
CreateConnectionRequest(requesterID, receiverID) ==
    LET reverse == {c \in connections : /\ c.requester_id = receiverID
                                        /\ c.receiver_id = requesterID}
        direct == {c \in connections : /\ c.requester_id = requesterID
                                       /\ c.receiver_id = receiverID}
    IN  IF \E c \in reverse : c.status = "pending"
        THEN UpdateConnectionStatus(<<receiverID, requesterID>>, "accepted")
        ELSE IF direct # {} THEN connections
        ELSE connections \cup
               {[id |-> <<requesterID, receiverID>>, requester_id |-> requesterID,
                 receiver_id |-> receiverID, status |-> "pending"]}

\* `go func() { ... notifService.SendNotification(...) }()`: a goroutine that
\* will notify userID ("" while the receiver is still to be found).
Spawn(typeStr, senderID, userID) ==
    [id |-> spawned + 1, type |-> typeStr, sender |-> senderID, user |-> userID,
     pc |-> IF typeStr = "message" THEN "chat" ELSE "insert"]

UnchangedByChat == UNCHANGED <<authVars, resetVars, txVars>>

\* A faulty variant of SendMessageCreate: the event is dispatched to the
\* first participant before the message is stored.
SendMessageCreate_DispatchFirst(senderID, f) ==
    /\ req = NoRequest
    /\ spawned < MaxJobs
    /\ f = "message" \/ sent + Len(ChatUsers) <= MaxEvents
    /\ SendToUser(ChatUsers[1])
    /\ IF f = "message"
       THEN /\ reply' = [NoReply EXCEPT !.op = "sendMessage", !.res = "error",
                                       !.user = senderID]
            /\ UNCHANGED <<messages, jobs, spawned, req>>
       ELSE /\ messages' = messages \cup {CreateMessageRow(senderID)}
            /\ jobs' = jobs \cup {Spawn("message", senderID, "")}
            /\ spawned' = spawned + 1
            /\ req' = [NoRequest EXCEPT !.op = "sendMessage", !.pc = "dispatch",
                                        !.user = senderID,
                                        !.msg = CreateMessageRow(senderID).id,
                                        !.todo = Tail(ChatUsers)]
            /\ UNCHANGED reply
    /\ UNCHANGED <<notifications, connections, pushes>>

\* ChatHandler.SendMessage up to the return of ChatService.SendMessage:
\* CreateMessage, and the notification goroutine if it succeeded.
SendMessageCreate(senderID, f) ==
    /\ req = NoRequest
    /\ spawned < MaxJobs
    /\ f = "message" \/ sent + Len(ChatUsers) <= MaxEvents
    /\ IF f = "message"
       THEN /\ reply' = [NoReply EXCEPT !.op = "sendMessage", !.res = "error",
                                       !.user = senderID]
            /\ UNCHANGED <<messages, jobs, spawned, req>>
       ELSE /\ messages' = messages \cup {CreateMessageRow(senderID)}
            /\ jobs' = jobs \cup {Spawn("message", senderID, "")}
            /\ spawned' = spawned + 1
            /\ req' = [NoRequest EXCEPT !.op = "sendMessage", !.pc = "getchat",
                                        !.user = senderID,
                                        !.msg = CreateMessageRow(senderID).id]
            /\ UNCHANGED reply
    /\ UNCHANGED <<notifications, connections, pushes, wsVars>>
    /\ UnchangedByChat

\* ChatHandler.SendMessage: GetChat; if it fails the broadcast is skipped and
\* the response is written.
SendMessageGetChat(f) ==
    /\ req.op = "sendMessage" /\ req.pc = "getchat"
    /\ IF f = "chat"
       THEN /\ req' = NoRequest
            /\ reply' = [NoReply EXCEPT !.op = "sendMessage", !.res = "ok",
                                       !.user = req.user, !.msg = req.msg]
       ELSE /\ req' = [req EXCEPT !.pc = "dispatch", !.todo = ChatUsers]
            /\ UNCHANGED reply
    /\ UNCHANGED <<messages, notifications, connections, pushes, jobs, spawned,
                   wsVars>>
    /\ UnchangedByChat

\* ChatHandler.SendMessage: one h.wsManager.SendToUser(u.ID, event) of the
\* loop over chat.Users; after the last one the response is written.
SendMessageDispatch ==
    /\ req.op = "sendMessage" /\ req.pc = "dispatch"
    /\ SendToUser(Head(req.todo))
    /\ IF Len(req.todo) = 1 /\ panic' = "none"
       THEN /\ req' = NoRequest
            /\ reply' = [NoReply EXCEPT !.op = "sendMessage", !.res = "ok",
                                       !.user = req.user, !.msg = req.msg]
       ELSE /\ req' = [req EXCEPT !.todo = Tail(@)]
            /\ UNCHANGED reply
    /\ UNCHANGED <<messages, notifications, connections, pushes, jobs, spawned>>

\* A faulty variant of SendRequest: the request is stored before the check
\* for a request to oneself.
SendRequest_CreatesFirst(requesterID, receiverID, f) ==
    /\ req = NoRequest
    /\ spawned < MaxJobs
    /\ IF requesterID = receiverID \/ f = "connection"
       THEN /\ reply' = [op |-> "sendRequest", res |-> "error",
                         user |-> requesterID, msg |-> 0,
                         conn |-> <<requesterID, receiverID>>]
            /\ connections' = IF f = "connection" THEN connections
                               ELSE CreateConnectionRequest(requesterID, receiverID)
            /\ UNCHANGED <<jobs, spawned>>
       ELSE /\ connections' = CreateConnectionRequest(requesterID, receiverID)
            /\ jobs' = jobs \cup {Spawn("connection_request", requesterID, receiverID)}
            /\ spawned' = spawned + 1
            /\ reply' = [op |-> "sendRequest", res |-> "ok", user |-> requesterID,
                         msg |-> 0,
                         conn |-> IF \E c \in connections :
                                        /\ c.id = <<receiverID, requesterID>>
                                        /\ c.status = "pending"
                                  THEN <<receiverID, requesterID>>
                                  ELSE <<requesterID, receiverID>>]
    /\ UNCHANGED <<messages, notifications, pushes, req, wsVars>>
    /\ UnchangedByChat


\* ConnectionService.SendRequest with its handler.
SendRequest(requesterID, receiverID, f) ==
    /\ req = NoRequest
    /\ spawned < MaxJobs
    /\ IF requesterID = receiverID \/ f = "connection"
       THEN /\ reply' = [op |-> "sendRequest", res |-> "error",
                         user |-> requesterID, msg |-> 0,
                         conn |-> <<requesterID, receiverID>>]
            /\ UNCHANGED <<connections, jobs, spawned>>
       ELSE /\ connections' = CreateConnectionRequest(requesterID, receiverID)
            /\ jobs' = jobs \cup {Spawn("connection_request", requesterID, receiverID)}
            /\ spawned' = spawned + 1
            /\ reply' = [op |-> "sendRequest", res |-> "ok", user |-> requesterID,
                         msg |-> 0,
                         conn |-> IF \E c \in connections :
                                        /\ c.id = <<receiverID, requesterID>>
                                        /\ c.status = "pending"
                                  THEN <<receiverID, requesterID>>
                                  ELSE <<requesterID, receiverID>>]
    /\ UNCHANGED <<messages, notifications, pushes, req, wsVars>>
    /\ UnchangedByChat

\* A faulty variant of RespondToRequest: the caller is not compared with the
\* receiver of the request.
RespondToRequest_AnyUser(userID, connectionID, accept, f) ==
    /\ req = NoRequest
    /\ spawned < MaxJobs
    /\ LET found == IF f = "connection" THEN {} ELSE GetConnectionByID(connectionID)
           conn == CHOOSE c \in found : TRUE
           status == IF accept THEN "accepted" ELSE "rejected"
       IN  IF found = {} \/ conn.status # "pending"
           THEN /\ reply' = [op |-> "respondToRequest", res |-> "error",
                             user |-> userID, msg |-> 0, conn |-> connectionID]
                /\ UNCHANGED <<connections, jobs, spawned>>
           ELSE /\ connections' = UpdateConnectionStatus(connectionID, status)
                /\ reply' = [op |-> "respondToRequest", res |-> "ok",
                             user |-> userID, msg |-> 0, conn |-> connectionID]
                /\ IF accept
                   THEN /\ jobs' = jobs \cup {Spawn("connection_accepted", userID,
                                                    conn.requester_id)}
                        /\ spawned' = spawned + 1
                   ELSE UNCHANGED <<jobs, spawned>>
    /\ UNCHANGED <<messages, notifications, pushes, req, wsVars>>
    /\ UnchangedByChat

\* ConnectionService.RespondToRequest with its handler: GetConnectionByID,
\* the receiver and status checks, UpdateConnectionStatus, and the
\* notification goroutine for an accepted request.
RespondToRequest(userID, connectionID, accept, f) ==
    /\ req = NoRequest
    /\ spawned < MaxJobs
    /\ LET found == IF f = "connection" THEN {} ELSE GetConnectionByID(connectionID)
           conn == CHOOSE c \in found : TRUE
           status == IF accept THEN "accepted" ELSE "rejected"
       IN  IF found = {} \/ conn.receiver_id # userID \/ conn.status # "pending"
           THEN /\ reply' = [op |-> "respondToRequest", res |-> "error",
                             user |-> userID, msg |-> 0, conn |-> connectionID]
                /\ UNCHANGED <<connections, jobs, spawned>>
           ELSE /\ connections' = UpdateConnectionStatus(connectionID, status)
                /\ reply' = [op |-> "respondToRequest", res |-> "ok",
                             user |-> userID, msg |-> 0, conn |-> connectionID]
                /\ IF accept
                   THEN /\ jobs' = jobs \cup {Spawn("connection_accepted", userID,
                                                    conn.requester_id)}
                        /\ spawned' = spawned + 1
                   ELSE UNCHANGED <<jobs, spawned>>
    /\ UNCHANGED <<messages, notifications, pushes, req, wsVars>>
    /\ UnchangedByChat

UnchangedByJob ==
    UNCHANGED <<messages, connections, req, spawned, reply, wsVars, authVars,
                resetVars, txVars>>

\* The goroutine of ChatService.SendMessage: GetChatByID and the search for
\* the other participant; it returns if the lookup fails.
NotifyGetChat(j, f) ==
    /\ j \in jobs /\ j.pc = "chat"
    /\ jobs' = IF f = "chat" THEN jobs \ {j}
               ELSE (jobs \ {j}) \cup
                    {[j EXCEPT !.pc = "insert",
                               !.user = CHOOSE u \in {ChatUsers[i] : i \in 1..Len(ChatUsers)} :
                                            u # j.sender]}
    /\ UNCHANGED <<notifications, pushes>>
    /\ UnchangedByJob

\* A faulty variant of NotifyCreate: the failure of CreateNotification becomes
\* the response of the request.
NotifyCreate_ReportsFailure(j, f) ==
    /\ j \in jobs /\ j.pc = "insert"
    /\ IF f = "notification"
       THEN /\ jobs' = jobs \ {j}
            /\ reply' = [reply EXCEPT !.res = "error"]
            /\ UNCHANGED notifications
       ELSE /\ notifications' = notifications \cup
                                  {CreateNotificationRow(j.user, j.type)}
            /\ jobs' = (jobs \ {j}) \cup {[j EXCEPT !.pc = "tokens"]}
            /\ UNCHANGED reply
    /\ UNCHANGED pushes
    /\ UNCHANGED <<messages, connections, req, spawned, wsVars, authVars,
                   resetVars, txVars>>

\* NotificationService.SendNotification: CreateNotification; its error is
\* returned to the goroutine, which drops it.
NotifyCreate(j, f) ==
    /\ j \in jobs /\ j.pc = "insert"
    /\ IF f = "notification"
       THEN /\ jobs' = jobs \ {j}
            /\ UNCHANGED notifications
       ELSE /\ notifications' = notifications \cup
                                  {CreateNotificationRow(j.user, j.type)}
            /\ jobs' = (jobs \ {j}) \cup {[j EXCEPT !.pc = "tokens"]}
    /\ UNCHANGED pushes
    /\ UnchangedByJob

\* NotificationService.SendNotification: GetFCMTokens; an error is logged and
\* nil returned.  (Every user has one device registered.)
NotifyTokens(j, f) ==
    /\ j \in jobs /\ j.pc = "tokens"
    /\ jobs' = IF f = "tokens" THEN jobs \ {j}
               ELSE (jobs \ {j}) \cup {[j EXCEPT !.pc = "push"]}
    /\ UNCHANGED <<notifications, pushes>>
    /\ UnchangedByJob

\* `go func(t string) { _ = s.fcmClient.Send(...) }(token)`
NotifyPush(j, f) ==
    /\ j \in jobs /\ j.pc = "push"
    /\ jobs' = jobs \ {j}
    /\ pushes' = IF f = "push" THEN pushes ELSE pushes + 1
    /\ UNCHANGED notifications
    /\ UnchangedByJob

\* The notification goroutines, with the failures F.
NotifyNext(F) ==
    \/ \E j \in jobs, f \in F \cap {"none", "chat"} : NotifyGetChat(j, f)
    \/ \E j \in jobs, f \in F \cap {"none", "notification"} : NotifyCreate(j, f)
    \/ \E j \in jobs, f \in F \cap {"none", "tokens"} : NotifyTokens(j, f)
    \/ \E j \in jobs, f \in F \cap {"none", "push"} : NotifyPush(j, f)

ChatInit ==
    /\ messages = {}
    /\ notifications = {}
    /\ connections = {}
    /\ pushes = 0
    /\ req = NoRequest
    /\ jobs = {}
    /\ spawned = 0
    /\ reply = NoReply

(***************************************************************************)
(* The chat repository with its transactions.  A transaction's statements  *)
(* are steps of the process that runs it; what it has written is kept in   *)
(* tx[p] and is seen by nobody else until Commit, and `defer tx.Rollback`  *)
(* drops it on every error return.                                         *)
(*                                                                         *)
(* f names the statement that fails for a reason outside the program:      *)
(* "check" (the SELECT of CreateChat), "chat" (INSERT INTO chats),         *)
(* "participants" (INSERT INTO chat_participants), "message" (INSERT INTO  *)
(* messages), "touch" (UPDATE chats), "commit"; "none": all work.          *)
(***************************************************************************)
\* The users who create chats and send messages.
ChatPeople == WSUsers \cup {"C"}

NoTx == [op |-> "none", pc |-> "idle", user1 |-> "", user2 |-> "", chat |-> 0,
         sender |-> "", msg |-> 0, got |-> 0, conn |-> <<>>, status |-> ""]

\* queryCheck of CreateChat: the chats in which user1ID has a participant
\* row and user2ID has one.
ChatsOf(user1ID, user2ID) ==
    {cp1.chat_id : cp1 \in {r \in chat_participants :
        /\ r.user_id = user1ID
        /\ \E cp2 \in chat_participants : /\ cp2.chat_id = r.chat_id
                                          /\ cp2.user_id = user2ID}}

\* INSERT INTO chat_participants (chat_id, user_id) VALUES ($1, $2), ($1, $3)
ParticipantRows(chatID, user1ID, user2ID) ==
    {[chat_id |-> chatID, user_id |-> user1ID, slot |-> 1],
     [chat_id |-> chatID, user_id |-> user2ID, slot |-> 2]}

\* UPDATE chats SET updated_at = NOW() WHERE id = $1; touches counts the
\* updates a row has received.
TouchChat(chatID) ==
    {IF c.id = chatID THEN [c EXCEPT !.touches = @ + 1] ELSE c : c \in chats}

\* The row lock of UPDATE chats ... WHERE id = chatID is held by another
\* transaction that has not ended.
ChatRowLocked(p, chatID) ==
    \E q \in Procs \ {p} : /\ tx[q].op = "createMessage"
                           /\ tx[q].pc = "commit"
                           /\ tx[q].chat = chatID

UnchangedByTx ==
    UNCHANGED <<authVars, wsVars, resetVars, notifications, connections, pushes,
                req, jobs, spawned, reply>>

\* PostgresRepository.CreateChat: the check for an existing chat.  Any error
\* of the query, "no rows" or not, leads to the creation of a chat.
CreateChatCheck(p, user1ID, user2ID, f) ==
    /\ tx[p].op = "none"
    /\ IF f # "check" /\ ChatsOf(user1ID, user2ID) # {}
       THEN \E existingChatID \in ChatsOf(user1ID, user2ID) :
                tx' = [tx EXCEPT ![p] = [NoTx EXCEPT !.got = existingChatID]]
       ELSE tx' = [tx EXCEPT ![p] = [NoTx EXCEPT !.op = "createChat",
                                                 !.pc = "chat",
                                                 !.user1 = user1ID,
                                                 !.user2 = user2ID]]
    /\ UNCHANGED <<chats, chat_participants, idSeq, messages>>
    /\ UnchangedByTx

\* A faulty variant of CreateChatInsert: the statement runs outside the
\* transaction and takes effect at once.
CreateChatInsert_Autocommit(p, f) ==
    /\ tx[p].op = "createChat" /\ tx[p].pc = "chat"
    /\ f = "chat" \/ idSeq < MaxIds
    /\ IF f = "chat"
       THEN /\ tx' = [tx EXCEPT ![p] = NoTx]
            /\ UNCHANGED <<idSeq, chats>>
       ELSE /\ idSeq' = idSeq + 1
            /\ chats' = chats \cup {[id |-> idSeq + 1, touches |-> 0]}
            /\ tx' = [tx EXCEPT ![p].pc = "participants", ![p].chat = idSeq + 1]
    /\ UNCHANGED <<chat_participants, messages>>
    /\ UnchangedByTx

\* PostgresRepository.CreateChat: Begin and INSERT INTO chats.
CreateChatInsert(p, f) ==
    /\ tx[p].op = "createChat" /\ tx[p].pc = "chat"
    /\ f = "chat" \/ idSeq < MaxIds
    /\ IF f = "chat"
       THEN /\ tx' = [tx EXCEPT ![p] = NoTx]
            /\ UNCHANGED idSeq
       ELSE /\ idSeq' = idSeq + 1
            /\ tx' = [tx EXCEPT ![p].pc = "participants", ![p].chat = idSeq + 1]
    /\ UNCHANGED <<chats, chat_participants, messages>>
    /\ UnchangedByTx

\* PostgresRepository.CreateChat: INSERT INTO chat_participants.  Whether two
\* rows for one user in one chat are accepted is the schema's to say: both
\* outcomes are possible.
CreateChatParticipants(p, f) ==
    /\ tx[p].op = "createChat" /\ tx[p].pc = "participants"
    /\ \/ /\ f = "participants" \/ tx[p].user1 = tx[p].user2
          /\ tx' = [tx EXCEPT ![p] = NoTx]
       \/ /\ f # "participants"
          /\ tx' = [tx EXCEPT ![p].pc = "commit"]
    /\ UNCHANGED <<chats, chat_participants, idSeq, messages>>
    /\ UnchangedByTx

\* PostgresRepository.CreateChat: Commit, and the chat is returned.
CreateChatCommit(p, f) ==
    /\ tx[p].op = "createChat" /\ tx[p].pc = "commit"
    /\ IF f = "commit"
       THEN /\ tx' = [tx EXCEPT ![p] = NoTx]
            /\ UNCHANGED <<chats, chat_participants>>
       ELSE /\ chats' = chats \cup {[id |-> tx[p].chat, touches |-> 0]}
            /\ chat_participants' =
                 chat_participants \cup
                   ParticipantRows(tx[p].chat, tx[p].user1, tx[p].user2)
            /\ tx' = [tx EXCEPT ![p] = [NoTx EXCEPT !.got = tx[p].chat]]
    /\ UNCHANGED <<idSeq, messages>>
    /\ UnchangedByTx

\* PostgresRepository.CreateMessage, called by ChatService.SendMessage with
\* the chat id of the URL and the caller's user id: Begin and INSERT INTO
\* messages.  (chatID is the id of a stored chat.)
CreateMessageInsert(p, chatID, senderID, f) ==
    /\ tx[p].op = "none"
    /\ \E c \in chats : c.id = chatID
    /\ f = "message" \/ idSeq < MaxIds
    /\ IF f = "message"
       THEN /\ tx' = [tx EXCEPT ![p] = NoTx]
            /\ UNCHANGED idSeq
       ELSE /\ idSeq' = idSeq + 1
            /\ tx' = [tx EXCEPT ![p] = [NoTx EXCEPT !.op = "createMessage",
                                                    !.pc = "touch",
                                                    !.chat = chatID,
                                                    !.sender = senderID,
                                                    !.msg = idSeq + 1]]
    /\ UNCHANGED <<chats, chat_participants, messages>>
    /\ UnchangedByTx

\* PostgresRepository.CreateMessage: UPDATE chats SET updated_at, which waits
\* for the row lock.
CreateMessageTouch(p, f) ==
    /\ tx[p].op = "createMessage" /\ tx[p].pc = "touch"
    /\ ~ChatRowLocked(p, tx[p].chat)
    /\ tx' = [tx EXCEPT ![p] = IF f = "touch" THEN NoTx
                               ELSE [tx[p] EXCEPT !.pc = "commit"]]
    /\ UNCHANGED <<chats, chat_participants, idSeq, messages>>
    /\ UnchangedByTx

\* PostgresRepository.CreateMessage: Commit.
CreateMessageCommit(p, f) ==
    /\ tx[p].op = "createMessage" /\ tx[p].pc = "commit"
    /\ IF f = "commit"
       THEN UNCHANGED <<messages, chats>>
       ELSE /\ messages' = messages \cup
                             {[id |-> tx[p].msg, chat_id |-> tx[p].chat,
                               sender_id |-> tx[p].sender]}
            /\ chats' = TouchChat(tx[p].chat)
    /\ tx' = [tx EXCEPT ![p] = NoTx]
    /\ UNCHANGED <<chat_participants, idSeq>>
    /\ UnchangedByTx

\* CreateChat calls of the processes P for the users U and their
\* CreateMessage calls for the senders S, with the failures F.
TxNext(P, F, U, S) ==
    \/ \E p \in P, u1, u2 \in U, f \in F \cap {"none", "check"} :
          CreateChatCheck(p, u1, u2, f)
    \/ \E p \in P, f \in F \cap {"none", "chat"} : CreateChatInsert(p, f)
    \/ \E p \in P, f \in F \cap {"none", "participants"} :
          CreateChatParticipants(p, f)
    \/ \E p \in P, f \in F \cap {"none", "commit"} : CreateChatCommit(p, f)
    \/ \E p \in P, c \in 1..MaxIds, u \in S,
          f \in F \cap {"none", "message"} : CreateMessageInsert(p, c, u, f)
    \/ \E p \in P, f \in F \cap {"none", "touch"} : CreateMessageTouch(p, f)
    \/ \E p \in P, f \in F \cap {"none", "commit"} : CreateMessageCommit(p, f)

(***************************************************************************)
(* ConnectionService statement by statement, for requests that run         *)
(* concurrently: each call reads the connections, decides, and writes in a *)
(* later statement; tx[p] holds what the call has read.  (The calls are    *)
(* those of connection_service.go, which start no goroutine.)              *)
(***************************************************************************)
\* ConnectionService.RespondToRequest: GetConnectionByID and the receiver and
\* status checks; a call that fails them returns its error.
RespondRead(p, userID, connectionID, accept) ==
    /\ tx[p].op = "none"
    /\ LET found == GetConnectionByID(connectionID)
           conn == CHOOSE c \in found : TRUE
       IN  IF found = {} \/ conn.receiver_id # userID \/ conn.status # "pending"
           THEN tx' = [tx EXCEPT ![p] = NoTx]
           ELSE tx' = [tx EXCEPT ![p] =
                         [NoTx EXCEPT !.op = "respond", !.pc = "update",
                                      !.user1 = userID, !.conn = connectionID,
                                      !.status = IF accept THEN "accepted"
                                                 ELSE "rejected"]]
    /\ UNCHANGED <<chats, chat_participants, idSeq, chatVars>>
    /\ UNCHANGED <<authVars, wsVars, resetVars>>

\* ConnectionService.RespondToRequest: UpdateConnectionStatus.
RespondWrite(p) ==
    /\ tx[p].op = "respond" /\ tx[p].pc = "update"
    /\ connections' = UpdateConnectionStatus(tx[p].conn, tx[p].status)
    /\ tx' = [tx EXCEPT ![p] = NoTx]
    /\ UNCHANGED <<chats, chat_participants, idSeq, messages, notifications,
                   pushes, req, jobs, spawned, reply>>
    /\ UNCHANGED <<authVars, wsVars, resetVars>>

\* ConnectionService.SendRequest: the check for a request to oneself, and
\* queryCheck of CreateConnectionRequest for the request in the reverse
\* direction.
RequestRead(p, requesterID, receiverID) ==
    /\ tx[p].op = "none"
    /\ IF requesterID = receiverID
       THEN tx' = [tx EXCEPT ![p] = NoTx]
       ELSE tx' = [tx EXCEPT ![p] =
              [NoTx EXCEPT !.op = "request",
                           !.user1 = requesterID, !.user2 = receiverID,
                           !.pc = IF \E c \in GetConnectionByID(<<receiverID, requesterID>>) :
                                        c.status = "pending"
                                  THEN "accept" ELSE "insert",
                           !.conn = IF \E c \in GetConnectionByID(<<receiverID, requesterID>>) :
                                          c.status = "pending"
                                    THEN <<receiverID, requesterID>>
                                    ELSE <<requesterID, receiverID>>]]
    /\ UNCHANGED <<chats, chat_participants, idSeq, chatVars>>
    /\ UNCHANGED <<authVars, wsVars, resetVars>>

\* CreateConnectionRequest: UpdateConnectionStatus of the reverse request
\* that was found pending, or else INSERT ... ON CONFLICT (requester_id,
\* receiver_id) DO UPDATE SET updated_at = NOW().
RequestWrite(p) ==
    /\ tx[p].op = "request"
    /\ connections' =
         IF tx[p].pc = "accept"
         THEN UpdateConnectionStatus(tx[p].conn, "accepted")
         ELSE IF GetConnectionByID(tx[p].conn) # {} THEN connections
         ELSE connections \cup
                {[id |-> tx[p].conn, requester_id |-> tx[p].user1,
                  receiver_id |-> tx[p].user2, status |-> "pending"]}
    /\ tx' = [tx EXCEPT ![p] = NoTx]
    /\ UNCHANGED <<chats, chat_participants, idSeq, messages, notifications,
                   pushes, req, jobs, spawned, reply>>
    /\ UNCHANGED <<authVars, wsVars, resetVars>>

\* SendRequest and RespondToRequest calls of the processes P.
ConnectionRaceNext(P) ==
    \/ \E p \in P, u \in WSUsers, id \in WSUsers \X WSUsers, accept \in BOOLEAN :
          RespondRead(p, u, id, accept)
    \/ \E p \in P : RespondWrite(p)
    \/ \E p \in P, u, v \in WSUsers : RequestRead(p, u, v)
    \/ \E p \in P : RequestWrite(p)

TxInit ==
    /\ chats = {}
    /\ chat_participants = {}
    /\ idSeq = 0
    /\ tx = [p \in Procs |-> NoTx]

vars == <<authVars, wsVars, resetVars, chatVars, txVars>>

Init == AuthInit /\ WSInit /\ ChatInit /\ TxInit

\* Requests served one at a time by a store that works.
Next == AuthNext({"p1"}, Registrations, {"none"}, {"redeemed"})

Spec == Init /\ [][Next]_vars

\* Requests served one at a time, for one account, by a store whose reads and
\* writes may fail.
StoreFaults == {"none", "lookup", "revoke", "user", "session", "token"}

FaultNext == AuthNext({"p1"}, {<<"u1@test.com", "Abcd1234">>}, StoreFaults, {"redeemed"})

FaultSpec == Init /\ [][FaultNext]_vars

\* The same as Spec, recording the Logout calls instead of the redemptions.
LogoutHistory == {"loggedOut"}

LogoutNext == AuthNext({"p1"}, Registrations, {"none"}, LogoutHistory)

LogoutSpec == Init /\ [][LogoutNext]_vars

\* The same as Spec, recording the LogoutAll calls instead of the redemptions.
SweepHistory == {"swept"}

SweepNext == AuthNext({"p1"}, Registrations, {"none"}, SweepHistory)

SweepSpec == Init /\ [][SweepNext]_vars

\* The same as Spec with Google sign-in, recording no history: accounts are
\* created by Register (with a password) and by GoogleLogin (without one).
CredentialNext ==
    \/ AuthNext({"p1"}, {<<"u1@test.com", "Abcd1234">>}, {"none"}, {})
    \/ \E e \in Emails : GoogleFind("p1", e)
    \/ GoogleIssue("p1")

CredentialSpec == Init /\ [][CredentialNext]_vars

\* The same as Spec with clients that present every kind of string as an
\* access token and as a refresh token, recording no history.
TokenNext ==
    \/ AuthNext({"p1"}, {<<"u1@test.com", "Abcd1234">>}, {"none"}, {})
    \/ \E tok \in TokenStrings : AuthMiddleware(tok)
    \/ \E tok \in TokenStrings : RefreshLookup("p1", tok, "none")

TokenSpec == Init /\ [][TokenNext]_vars

\* One account, whose owner registers, redeems refresh tokens and resets the
\* password; during a reset the store may reject the revoking UPDATE.
ResetFaults == {"none", "revoke"}

ResetSpecNext ==
    \/ \E r \in {<<"u1@test.com", "Abcd1234">>} : RegisterCheck("p1", r[1], r[2])
    \/ RegisterCreate("p1", "none")
    \/ \E tok \in Presentable : RefreshLookup("p1", tok, "none")
    \/ RefreshRevoke("p1", "none")
    \/ RefreshIssue("p1", "none", {})
    \/ ResetNext({"p1"}, ResetFaults, {"reset"})
    \/ Tick

ResetSpec == Init /\ [][ResetSpecNext]_vars

\* One account, whose owner registers, logs out and resets the password on a
\* store that works, and sends requests that carry an access token.
AccessNext ==
    \/ \E r \in {<<"u1@test.com", "Abcd1234">>} : RegisterCheck("p1", r[1], r[2])
    \/ RegisterCreate("p1", "none")
    \/ \E tok \in Presentable : Logout("p1", tok, "none", {})
    \/ \E u \in UserIds : LogoutAll("p1", u, "none", {})
    \/ ResetNext({"p1"}, {"none"}, {})
    \/ \E tok \in MintedAs("access") : AuthMiddleware(tok)
    \/ Tick

AccessSpec == Init /\ [][AccessNext]_vars

\* Two password-reset requests in flight at once, on a store that works.
ResetRaceNext ==
    \/ \E r \in {<<"u1@test.com", "Abcd1234">>} : RegisterCheck("p1", r[1], r[2])
    \/ RegisterCreate("p1", "none")
    \/ ResetNext(Procs, {"none"}, {})
    \/ Tick

ResetRaceSpec == Init /\ [][ResetRaceNext]_vars

\* The same as Spec for one account, recording redemptions and logouts, with
\* clients that also present correctly signed refresh tokens of their own
\* making.
RevokedNext ==
    \/ AuthNext({"p1"}, {<<"u1@test.com", "Abcd1234">>}, {"none"},
                {"redeemed", "loggedOut"})
    \/ \E tok \in MintedAs("refresh") : RefreshLookup("p1", tok, "none")

RevokedSpec == Init /\ [][RevokedNext]_vars

\* Two requests in flight at once, for one account, on a store that works.
RaceNext == AuthNext(Procs, {<<"u1@test.com", "Abcd1234">>}, {"none"}, {"redeemed"})

RaceSpec == Init /\ [][RaceNext]_vars

\* Connections that are opened and stay up, and messages sent to the chat
\* while the store may fail to persist them or to read the chat; the
\* notification goroutines have not run yet.
ChatFaults == {"none", "message", "chat"}

ChatNext ==
    \/ \E u \in WSUsers : HandleWebSocket(u)
    \/ \E c \in Clients : RunReceiveRegister(c)
    \/ RunRegister
    \/ \E c \in Clients : WritePumpReceive(c)
    \/ \E u \in WSUsers, f \in ChatFaults : SendMessageCreate(u, f)
    \/ \E f \in ChatFaults : SendMessageGetChat(f)
    \/ SendMessageDispatch

ChatSpec == Init /\ [][ChatNext]_vars

\* Messages and connection requests with their notification goroutines, on
\* a store and a push service that may fail; nobody is connected.
SocialFaults == {"none", "message", "chat", "connection", "notification",
                 "tokens", "push"}

SocialNext ==
    \/ \E u \in WSUsers, f \in SocialFaults \cap {"none", "message"} :
          SendMessageCreate(u, f)
    \/ \E f \in SocialFaults \cap {"none", "chat"} : SendMessageGetChat(f)
    \/ SendMessageDispatch
    \/ \E u, v \in WSUsers, f \in SocialFaults \cap {"none", "connection"} :
          SendRequest(u, v, f)
    \/ \E u \in WSUsers, id \in WSUsers \X WSUsers, accept \in BOOLEAN,
          f \in SocialFaults \cap {"none", "connection"} :
          RespondToRequest(u, id, accept, f)
    \/ NotifyNext(SocialFaults)

SocialSpec == Init /\ [][SocialNext]_vars

\* Connection requests and the answers to them, on a store that may fail
\* on connections, with their notification goroutines.
ConnectionFaults == {"none", "connection"}

ConnectionNext ==
    \/ \E u, v \in WSUsers, f \in ConnectionFaults : SendRequest(u, v, f)
    \/ \E u \in WSUsers, id \in WSUsers \X WSUsers, accept \in BOOLEAN,
          f \in ConnectionFaults : RespondToRequest(u, id, accept, f)
    \/ \E j \in jobs : NotifyCreate(j, "none")
    \/ \E j \in jobs : NotifyTokens(j, "none")
    \/ \E j \in jobs : NotifyPush(j, "none")

ConnectionSpec == Init /\ [][ConnectionNext]_vars

\* Chats created and messages stored by two concurrent requests, on a store
\* in which every statement may fail.
TxFaults == {"none", "check", "chat", "participants", "message", "touch",
             "commit"}

StoreTxSpec == Init /\ [][TxNext(Procs, TxFaults, WSUsers, WSUsers)]_vars

\* Chats created by two users and messages sent to them by anybody who is
\* signed in, one call after the other, on a store that works.
MessageSpec == Init /\ [][TxNext({"p1"}, {"none"}, WSUsers, ChatPeople)]_vars

\* Chats created and messages sent by two concurrent processes on a store
\* that works.
ChatRaceSpec == Init /\ [][TxNext(Procs, {"none"}, WSUsers, WSUsers)]_vars

\* Connection requests and the answers to them, made by two concurrent
\* processes on a store that works.
ConnectionRaceSpec == Init /\ [][ConnectionRaceNext(Procs)]_vars

\* The connection registry with its goroutines.
WSSpec == Init /\ [][WSNext]_vars

\* The same, with the Go scheduler running every goroutine that can take a
\* step: the Run loop, and the read and write pump of each connection.  (The
\* peers, the dispatching handlers and new connections are under no such
\* obligation.)
WSFairness ==
    /\ WF_vars(RunRegister)
    /\ WF_vars(RunUnregister)
    /\ \A c \in Clients :
         /\ WF_vars(RunReceiveUnregister(c))
         /\ WF_vars(ReadPumpFail(c))
         /\ WF_vars(WritePumpReceive(c))
         /\ WF_vars(WritePumpBatch(c))
         /\ WF_vars(WritePumpClosed(c))

WSFairSpec == WSSpec /\ WSFairness

(***************************************************************************)
(* Properties of the refresh-token lifecycle.                              *)
(***************************************************************************)
RevokedRows(rows) == {r \in rows : r.revoked}

\* The records of session sid that the lookup of RefreshToken would accept.
LiveRows(sid) ==
    {r \in refresh_tokens : r.session_id = sid /\ ~r.revoked /\ r.expires_at > now}

\* The token whose hash record r stores.
TokenOf(r) == r.token_hash[2]

\* C1 (FaultSpec): once a RefreshToken call has succeeded with T, no later
\* RefreshToken call with T succeeds or stores a new record.  (The error kind
\* of the later call is left open here.)  Fails: when the store rejects the
\* revoke UPDATE, RefreshToken goes on, T stays unrevoked and is redeemed
\* again.
C1_RedeemedTokenIsSpent ==
    (last.op = "refresh" /\ "redeemed" \in last.pre)
        => (last.res # "ok" /\ last.out = NoToken)

\* C2 (Spec): a RefreshToken call with an already-redeemed T that is turned
\* down as revoked leaves every refresh-token record of T's user revoked.
\* Fails: the lookup filters revoked records out, so the branch that revokes
\* the user's tokens is never taken and T's replacement stays redeemable.
C2_ReuseRevokesFamily ==
    (last.op = "refresh" /\ "redeemed" \in last.pre /\ last.res = "Revoked")
        => \A r \in refresh_tokens : r.user_id = last.tok.uid => r.revoked

\* C3 (RaceSpec): of the RefreshToken calls made with one token, at most one
\* succeeds: no call returns a new pair for a token that a call has already
\* succeeded with.  Fails: two calls in flight both look T up before either
\* revokes it.
C3_AtMostOneWinner ==
    [][\A p \in Procs :
          (/\ calls[p].op = "refresh" /\ calls[p].pc = "issue"
           /\ calls'[p].pc = "idle"
           /\ last'.res = "ok")
              => calls[p].tok \notin redeemed]_vars

\* C4 (Spec): with calls made one after the other and every store write
\* succeeding, each session has at most one refresh-token record that is
\* neither revoked nor expired.
C4_OneLiveTokenPerSession ==
    \A s \in sessions : Cardinality(LiveRows(s.id)) <= 1

\* A rotation has happened: a session holds a revoked record and a live one.
C4_Witness ==
    \E s \in sessions :
        /\ Cardinality(LiveRows(s.id)) = 1
        /\ \E r \in refresh_tokens : r.session_id = s.id /\ r.revoked

\* C5 (Spec): a RefreshToken call with a token whose record is stored,
\* unrevoked and unexpired succeeds and returns a refresh token other than
\* the one presented.  Fails within the clock second of T's issuance: the new
\* token equals T, its insert violates UNIQUE(token_hash), and T is revoked
\* already.
C5_ValidTokenRotates ==
    (last.op = "refresh" /\ last.found)
        => (last.res = "ok" /\ last.out # NoToken /\ last.out # last.tok)

\* C6 (LogoutSpec): after Logout(T) the session of T's record is inactive,
\* and after LogoutAll(U) so is the session of every record U held.  Fails
\* with the first Logout: neither call touches the sessions table.
C6_LogoutDeactivatesSession ==
    \A r \in refresh_tokens :
        TokenOf(r) \in loggedOut \cup swept
            => \A s \in sessions : s.id = r.session_id => ~s.is_active

\* C7 (LogoutSpec): Logout returns success for every token, issued or not,
\* revoked or not; a Logout of a token that was logged out before, or that
\* was never issued, succeeds too and leaves the set of revoked records as
\* it found it.
C7_LogoutIdempotent ==
    [][\A tok \in {last'.tok} :
          (last'.op = "logout" /\ Logout("p1", tok, "none", LogoutHistory))
              => /\ last'.res = "ok"
                 /\ (tok \in loggedOut \/ tok \notin Issued)
                      => RevokedRows(refresh_tokens') = RevokedRows(refresh_tokens)]_vars

\* An issued token has been logged out a second time, while its user holds a
\* record that is not revoked.
C7_Witness ==
    /\ last.op = "logout" /\ "loggedOut" \in last.pre /\ last.res = "ok"
    /\ last.tok \in Issued
    /\ \E r \in refresh_tokens : r.user_id = last.tok.uid /\ ~r.revoked

\* C8 as stated (LogoutSpec): after Logout(T), every RefreshToken(T) call
\* fails with Revoked.
C8_LoggedOutTokenRevoked ==
    (last.op = "refresh" /\ "loggedOut" \in last.pre /\ last.tok \in Issued)
        => (last.res = "Revoked" /\ last.out = NoToken)

\* C8 (LogoutSpec): after Logout(T) for an issued token T, every
\* RefreshToken(T) call fails and stores nothing: with Revoked, or, once T's
\* expiry time has passed, with Expired.
C8_LoggedOutTokenFails ==
    (last.op = "refresh" /\ "loggedOut" \in last.pre /\ last.tok \in Issued)
        => /\ last.out = NoToken
           /\ last.res \in {"Revoked", "Expired"}
           /\ last.res = "Expired" => ~(now < RefreshExpiresAt(last.tok.iat))

\* A logged-out token has been presented before its expiry and turned down.
C8_Witness ==
    /\ last.op = "refresh" /\ "loggedOut" \in last.pre /\ last.tok \in Issued
    /\ last.res = "Revoked"
    /\ now < RefreshExpiresAt(last.tok.iat)

\* C9 as stated (SweepSpec): after LogoutAll(U), RefreshToken fails with
\* Revoked for every token issued to U before the call.
C9_SweptTokenRevoked ==
    (last.op = "refresh" /\ "swept" \in last.pre)
        => (last.res = "Revoked" /\ last.out = NoToken)

\* C9 (SweepSpec): after LogoutAll(U), RefreshToken fails for every token
\* issued to U before the call, with Revoked or, once the token's expiry time
\* has passed, with Expired; and LogoutAll(U) leaves the records of every
\* other user as they are.
C9_LogoutAllSweepsOneUser ==
    /\ [](((last.op = "refresh" /\ "swept" \in last.pre)
            => /\ last.out = NoToken
               /\ last.res \in {"Revoked", "Expired"}
               /\ last.res = "Expired" => ~(now < RefreshExpiresAt(last.tok.iat))))
    /\ [][\A u \in UserIds :
            (last'.op = "logoutAll" /\ LogoutAll("p1", u, "none", SweepHistory))
                => \A r \in refresh_tokens : r.user_id # u => r \in refresh_tokens']_vars

\* A token swept by LogoutAll has been turned down before its expiry while
\* another user holds a record that is not revoked.
C9_Witness ==
    /\ last.op = "refresh" /\ "swept" \in last.pre /\ last.res = "Revoked"
    /\ now < RefreshExpiresAt(last.tok.iat)
    /\ \E r \in refresh_tokens : r.user_id # last.tok.uid /\ ~r.revoked

(***************************************************************************)
(* Properties of the connection registry.                                  *)
(***************************************************************************)
\* Every message that reached connection c: sent, in the frame, or queued.
Passed(c) == client[c].wire \o client[c].frame \o client[c].Send

\* C10 (WSSpec): SendToUser(A, event) enqueues nothing onto a connection of
\* another user, and exactly one message onto a connection registered for A
\* whose queue has room.  In every state, each message that reached a
\* connection was dispatched to the connection's user, and reached it once.
C10_SendToUserIsolation ==
    /\ [](\A c \in Clients :
            \A i \in 1..Len(Passed(c)) :
                /\ Passed(c)[i].to = client[c].UserID
                /\ \A j \in 1..Len(Passed(c)) :
                       Passed(c)[j].n = Passed(c)[i].n => j = i)
    /\ [][\A u \in WSUsers :
            SendToUser(u)
                => \A c \in Clients :
                     /\ client[c].UserID # u
                          => client'[c].Send = client[c].Send
                     /\ (c \in clients /\ client[c].UserID = u
                            /\ Len(client[c].Send) < SendBuffer)
                          => client'[c].Send =
                               Append(client[c].Send, [n |-> sent + 1, to |-> u])]_vars

\* Connection c1 is registered for A and c2 for B; the one dispatch made so
\* far, to A, is on c1's queue, and c2's queue is empty.
C10_Witness ==
    \E c1, c2 \in clients :
        /\ client[c1].UserID = "A" /\ client[c2].UserID = "B"
        /\ sent = 1
        /\ Len(client[c1].Send) = 1 /\ client[c1].Send[1].to = "A"
        /\ Passed(c2) = <<>>
        /\ ~client[c1].closed /\ ~client[c2].closed

\* The messages in sequence q that stem from dispatch number k.
Copies(q, k) == {i \in 1..Len(q) : q[i].n = k}

\* C11 (WSSpec): a SendToUser(U, event) step puts exactly one copy of the
\* event at the end of the queue of every connection that is registered for
\* U (it is in the registry's connection set and belongs to U) and has room,
\* and leaves a registered connection's full queue as it is.
C11_OneCopyPerConnection ==
    [][\A u \in WSUsers :
          (sent' = sent + 1 /\ SendToUser(u))
              => \A c \in clients :
                   client[c].UserID = u
                     => IF Len(client[c].Send) < SendBuffer
                        THEN /\ client'[c].Send =
                                  Append(client[c].Send, [n |-> sent', to |-> u])
                             /\ Cardinality(Copies(client'[c].Send, sent')) = 1
                        ELSE client'[c].Send = client[c].Send]_vars

\* Two connections are registered for A, and the one dispatch made so far
\* is on the queue of each.
C11_Witness ==
    /\ sent = 1
    /\ clients = {1, 2}
    /\ \A c \in clients :
         /\ client[c].UserID = "A"
         /\ client[c].Send = <<[n |-> 1, to |-> "A"]>>

\* The connections the registry holds, in either index.
Indexed == clients \cup UNION {userClients[u] : u \in DOMAIN userClients}

\* C12 (WSSpec): no send on a closed queue and no second close of a queue
\* ever happens (either would be a runtime panic); a connection the registry
\* holds has an open queue; and every message that reached a connection
\* whose queue is closed was dispatched before the close.
C12_NoSendAfterClose ==
    /\ panic = "none"
    /\ \A c \in Indexed : ~client[c].closed
    /\ \A c \in Clients :
         client[c].closed
           => \A i \in 1..Len(Passed(c)) : Passed(c)[i].n <= client[c].closedAt

\* A connection of some user has been unregistered and its queue closed, and
\* an event dispatched to that user after the close has reached the user's
\* other connection.
C12_Witness ==
    \E c, d \in Clients :
        /\ client[c].closed
        /\ client[d].UserID = client[c].UserID
        /\ \E i \in 1..Len(Passed(d)) : Passed(d)[i].n > client[c].closedAt

\* The connections registered for user u.
RegisteredFor(u) == {c \in clients : client[c].UserID = u}

\* C13 (WSSpec): SendToUser can always take its step, whatever the state of
\* the queues; a step that finds the queue of a connection registered for
\* the user full leaves that queue, the connection's registration and the
\* open state of the queue as they are, and still appends the event to the
\* queue of each of the user's other registered connections that has room.
C13_FullQueueDropsOnly ==
    /\ []((Running /\ sent < MaxEvents) => \A u \in WSUsers : ENABLED SendToUser(u))
    /\ [][\A u \in WSUsers :
            (sent' = sent + 1 /\ SendToUser(u))
                => \A c \in RegisteredFor(u) :
                     Len(client[c].Send) = SendBuffer
                       => /\ client'[c] = client[c]
                          /\ c \in clients' /\ c \in userClients'[u]
                          /\ ~client'[c].closed
                          /\ \A d \in RegisteredFor(u) :
                               Len(client[d].Send) < SendBuffer
                                 => client'[d].Send =
                                      Append(client[d].Send, [n |-> sent', to |-> u])]_vars

\* Both connections are registered for A with open queues.  The queue of
\* connection 1 is full with the first dispatches; the last dispatch is
\* missing there and has reached connection 2.
C13_Witness ==
    /\ clients = {1, 2}
    /\ client[1].UserID = "A" /\ client[2].UserID = "A"
    /\ ~client[1].closed /\ ~client[2].closed
    /\ Len(client[1].Send) = SendBuffer
    /\ Copies(Passed(1), sent) = {}
    /\ Copies(Passed(2), sent) # {}
    /\ \A i \in 1..Len(client[1].Send) : client[1].Send[i].n < sent

\* C14 (WSSpec): for each connection, the messages written to the transport,
\* followed by those written to the current frame and those still queued,
\* are in the order of their dispatch, which is the order in which they were
\* enqueued; so the writes are in enqueue order and no message is written
\* twice.
C14_WriterKeepsOrder ==
    \A c \in Clients :
        \A i, j \in 1..Len(Passed(c)) :
            i < j => Passed(c)[i].n < Passed(c)[j].n

\* A connection's writer has sent two messages in one frame and a third
\* message in a second frame.
C14_Witness ==
    \E c \in Clients :
        /\ Len(client[c].wire) = 3
        /\ client[c].writer = "range"
        /\ client[c].Send = <<>>

\* The users whose group holds connection c.
GroupsOf(c) == {u \in DOMAIN userClients : c \in userClients[u]}

\* C15 (WSSpec): the unregister case of Run, for a connection c the registry
\* holds, takes c out of the connection set and out of its user's group,
\* closes c's queue, and deletes the group if c was its last member; and in
\* every state no user maps to an empty group.
C15_UnregisterCleansUp ==
    /\ [](\A u \in DOMAIN userClients : userClients[u] # {})
    /\ [][(run.pc = "unregister" /\ run'.pc = "select" /\ run.c \in clients)
            => LET c == run.c
                   u == client[c].UserID
               IN  /\ c \notin clients'
                   /\ \A v \in DOMAIN userClients' : c \notin userClients'[v]
                   /\ client'[c].closed /\ ~client[c].closed
                   /\ (userClients[u] = {c}) => u \notin DOMAIN userClients'
                   /\ (userClients[u] # {c})
                         => /\ u \in DOMAIN userClients'
                            /\ userClients'[u] = userClients[u] \ {c}
                   /\ \A v \in DOMAIN userClients \ {u} :
                         v \in DOMAIN userClients' /\ userClients'[v] = userClients[v]
                   /\ clients' = clients \ {c}]_vars

\* The only connection of a user has been unregistered: its queue is closed
\* and the user has no group, while the other user's group is still there.
C15_Witness ==
    \E c \in Clients :
        /\ client[c].closed
        /\ c \notin clients
        /\ client[c].UserID \notin DOMAIN userClients
        /\ DOMAIN userClients # {}

\* The read loop of connection c has failed (it is at, or past, its send on
\* unregister), or its write loop has ended.
LoopFailed(c) ==
    client[c].reader \in {"unregister", "exit"} \/ client[c].writer = "exit"

\* Connection c is unregistered, its queue closed, and both loops are over.
Reaped(c) ==
    /\ c \notin Indexed
    /\ client[c].closed
    /\ client[c].reader = "exit"
    /\ client[c].writer = "exit"

\* C16 (WSFairSpec): once the read loop or the write loop of a connection
\* has failed, the connection is eventually unregistered with its queue
\* closed and both loops ended, provided Run and the pumps keep being
\* scheduled.
C16_FailedConnectionReaped ==
    \A c \in Clients : LoopFailed(c) ~> Reaped(c)

\* A connection has been reaped after at least one dispatch was made, without
\* a message having been sent to its peer.
C16_Witness ==
    \E c \in Clients :
        /\ Reaped(c)
        /\ client[c].wire = <<>>
        /\ client[c].closedAt > 0

\* C17 (CredentialSpec): a login for an email that no user has, for a user
\* that has no password credential (created by Google sign-in only), or with
\* a wrong password fails with InvalidCredentials in all three cases, returns
\* no token, and leaves users, sessions and refresh tokens as they were.
C17_LoginFailuresAlike ==
    /\ []((last.op = "login" /\ last.pre # {})
             => last.res = "InvalidCredentials" /\ last.out = NoToken)
    /\ [][\A e \in Emails, pw \in Passwords :
            (LoginVerify("p1", e, pw) /\ LoginCase(e, pw) # {})
                => /\ last'.op = "login"
                   /\ last'.res = "InvalidCredentials"
                   /\ last'.pre = LoginCase(e, pw)
                   /\ calls'["p1"] = Idle
                   /\ UNCHANGED <<users, sessions, refresh_tokens>>]_vars

\* An account exists that Google sign-in created, without a password, and
\* the last call was a login to it; it failed with InvalidCredentials and the
\* only session is the one that the Google sign-in made.
C17_Witness ==
    /\ last.op = "login" /\ last.pre = {"noPassword"}
    /\ last.res = "InvalidCredentials"
    /\ \E u \in users : u.password_hash = <<>> /\ u.google_id # <<>>
    /\ Cardinality(sessions) = 1 /\ Cardinality(refresh_tokens) = 1

\* C18 (RaceSpec): a Register call for an email that a user already has fails
\* with AlreadyExists and creates no user, session or refresh token, whether
\* the user was there when the call checked or was created by a competing
\* call while it ran.  Fails: two calls in flight both pass UserExistsByEmail;
\* the second CreateUser violates UNIQUE(email) and Register returns the
\* store's error as it is.
C18_DuplicateEmailRejected ==
    [][\A p \in Procs :
          /\ \A reg \in Registrations :
                (RegisterCheck(p, reg[1], reg[2]) /\ UserExistsByEmail(reg[1]))
                    => /\ last'.op = "register" /\ last'.res = "AlreadyExists"
                       /\ UNCHANGED <<users, sessions, refresh_tokens>>
          /\ (/\ calls[p].op = "register" /\ calls[p].pc = "create"
              /\ calls'[p].pc = "idle"
              /\ UserExistsByEmail(calls[p].email))
                    => /\ last'.op = "register" /\ last'.res = "AlreadyExists"
                       /\ UNCHANGED <<users, sessions, refresh_tokens>>]_vars

\* C19 as stated (TokenSpec): a token minted as a refresh token fails with
\* Invalid in AuthMiddleware, and a token minted as an access token fails
\* with Invalid in RefreshToken.  Fails for a token past its expiry time: the
\* exp claim is checked before the token type, so the error is Expired.
C19_WrongTypeIsInvalid ==
    [][/\ \A tok \in MintedAs("refresh") \cap {last'.tok} :
            AuthMiddleware(tok) => last'.res = "Invalid"
       /\ \A tok \in MintedAs("access") \cap {last'.tok} :
            RefreshLookup("p1", tok, "none")
                => /\ last'.op = "refresh" /\ last'.tok = tok
                   /\ last'.res = "Invalid"]_vars

\* C19 (TokenSpec): a token minted as a refresh token is never accepted by
\* AuthMiddleware, and a token minted as an access token is never accepted by
\* RefreshToken, which ends at once and changes no table; either attempt
\* fails with Invalid while the token is unexpired and with Expired after.
C19_WrongTypeRejected ==
    [][/\ \A tok \in MintedAs("refresh") \cap {last'.tok} :
            AuthMiddleware(tok)
                => last'.res = IF now < ExpiresAt(tok) THEN "Invalid"
                               ELSE "Expired"
       /\ \A tok \in MintedAs("access") \cap {last'.tok} :
            RefreshLookup("p1", tok, "none")
                => /\ last'.op = "refresh" /\ last'.tok = tok
                   /\ last'.res = IF now < ExpiresAt(tok) THEN "Invalid"
                                  ELSE "Expired"
                   /\ calls'["p1"] = Idle
                   /\ UNCHANGED <<users, sessions, refresh_tokens>>]_vars

\* The refresh token that Register handed out, still unexpired and
\* unrevoked, was presented to AuthMiddleware, which answered "invalid
\* token".
C19_Witness ==
    /\ last.op = "authenticate" /\ last.res = "Invalid"
    /\ last.tok \in Issued
    /\ now < ExpiresAt(last.tok)
    /\ \E r \in refresh_tokens : r.token_hash = HashToken(last.tok) /\ ~r.revoked

\* What the caller of ValidateAccessToken or ValidateRefreshToken got in the
\* step just taken: AuthMiddleware passes the error on; RefreshToken passes
\* the error on and otherwise goes on to look the token up.
Verified(type) ==
    IF type = "refresh" /\ calls'["p1"] # calls["p1"] THEN "ok"
    ELSE IF last'.res \in {"Invalid", "Expired"} THEN last'.res
    ELSE "ok"

\* The strings that the step just taken can have verified: a call that
\* returns names its token in last, one that goes on names it in calls.
Verifying == {last'.tok, calls'["p1"].tok} \cap TokenStrings

\* The calls that verify tok as a token of the given type.
Verify(tok, type) ==
    IF type = "access" THEN AuthMiddleware(tok)
    ELSE RefreshLookup("p1", tok, "none")

\* C20 as stated (TokenSpec): verification returns the claims exactly when
\* the signature is valid, the type is the expected one and the token is
\* unexpired; an expired, correctly signed token of the expected type fails
\* with Expired; a wrong signature, a malformed string or another type fails
\* with Invalid.  Fails for a correctly signed, expired token of the other
\* type: Expired.
C20_VerifyAsStated ==
    [][\A tok \in Verifying, type \in {"access", "refresh"} :
          Verify(tok, type)
            => /\ Verified(type) = "ok"
                    <=> (tok.sig /\ tok.kind = type /\ now < ExpiresAt(tok))
               /\ (tok.sig /\ tok.kind = type /\ ~(now < ExpiresAt(tok)))
                    => Verified(type) = "Expired"
               /\ (~tok.sig \/ tok = NoToken \/ tok.kind # type)
                    => Verified(type) = "Invalid"]_vars

\* C20 (TokenSpec): verification returns the claims exactly when the
\* signature is valid, the type is the expected one and the token is
\* unexpired; an expired, correctly signed token fails with Expired, of
\* whichever type it is; a wrong signature, a malformed string, or an
\* unexpired token of the other type fails with Invalid.
C20_VerifyByExpiryThenType ==
    [][\A tok \in Verifying, type \in {"access", "refresh"} :
          Verify(tok, type)
            => /\ Verified(type) = "ok"
                    <=> (tok.sig /\ tok.kind = type /\ now < ExpiresAt(tok))
               /\ (tok.sig /\ ~(now < ExpiresAt(tok)))
                    => Verified(type) = "Expired"
               /\ (~tok.sig \/ tok = NoToken
                     \/ (tok.kind # type /\ now < ExpiresAt(tok)))
                    => Verified(type) = "Invalid"]_vars

\* An access token of the registered user, issued with the registration and
\* correctly signed, was presented to AuthMiddleware after its expiry time,
\* while the refresh token of the same pair was still unexpired; the answer
\* was "token has expired".
C20_Witness ==
    /\ last.op = "authenticate" /\ last.res = "Expired"
    /\ last.tok.sig /\ last.tok.kind = "access"
    /\ [last.tok EXCEPT !.kind = "refresh"] \in Issued
    /\ ~(now < ExpiresAt(last.tok))
    /\ now < RefreshExpiresAt(last.tok.iat)

(***************************************************************************)
(* Properties of access tokens and password resets.                        *)
(***************************************************************************)
\* C21 (AccessSpec): whether AuthMiddleware accepts a token minted as an
\* access token depends on the token and the clock alone: it is accepted
\* exactly while it is unexpired, and answered "token has expired" after,
\* whatever Logout, LogoutAll and ResetPassword have done to the store.
C21_AccessTokenIgnoresStore ==
    [][\A tok \in MintedAs("access") \cap {last'.tok} :
          AuthMiddleware(tok)
              => /\ last'.res = "ok" <=> now < ExpiresAt(tok)
                 /\ last'.res \in {"ok", "Expired"}]_vars

\* The access token issued with the registration was accepted although, by
\* then, every refresh-token record of its user was revoked and a
\* ResetPassword had succeeded for the user.
C21_Witness ==
    /\ last.op = "authenticate" /\ last.res = "ok"
    /\ [last.tok EXCEPT !.kind = "refresh"] \in Issued
    /\ \A r \in refresh_tokens : r.user_id = last.tok.uid => r.revoked
    /\ \E r \in password_reset_tokens : r.user_id = last.tok.uid /\ r.used
    /\ resetDone # {}

\* The three ways in which a correctly signed refresh token can be without
\* a usable record: never stored, revoked by a Logout, already rotated.
Unusable(tok) ==
    {k \in {"neverStored", "loggedOut", "rotated"} :
        \/ k = "neverStored" /\ tok \notin Issued
        \/ k = "loggedOut" /\ tok \in loggedOut
        \/ k = "rotated" /\ tok \in redeemed}

\* C22 as stated (RevokedSpec): a RefreshToken call with a correctly signed
\* refresh token that was never stored, was revoked by Logout or was already
\* rotated fails with Revoked.  Fails for a token past its expiry time:
\* Expired, in all three cases.
C22_UnusableIsRevoked ==
    [][\A tok \in MintedAs("refresh") \cap {last'.tok} :
          (RefreshLookup("p1", tok, "none") /\ Unusable(tok) # {})
              => /\ last'.op = "refresh" /\ last'.tok = tok
                 /\ last'.res = "Revoked"]_vars

\* C22 (RevokedSpec): a RefreshToken call with a correctly signed refresh
\* token that was never stored, was revoked by Logout or was already rotated
\* fails with the same error kind in the three cases: Revoked while the token
\* is unexpired, Expired after.
C22_UnusableAlike ==
    [][\A tok \in MintedAs("refresh") \cap {last'.tok} :
          (RefreshLookup("p1", tok, "none") /\ Unusable(tok) # {})
              => /\ last'.op = "refresh" /\ last'.tok = tok
                 /\ last'.res = IF now < ExpiresAt(tok) THEN "Revoked"
                                ELSE "Expired"
                 /\ calls'["p1"] = Idle]_vars

\* One token has been rotated and another revoked by Logout; the last call
\* presented a correctly signed, unexpired token that was never stored and
\* failed with Revoked.
C22_Witness ==
    /\ last.op = "refresh" /\ last.res = "Revoked"
    /\ last.tok \in MintedAs("refresh") \ Issued
    /\ now < ExpiresAt(last.tok)
    /\ redeemed # {} /\ loggedOut # {}

\* C23 (TokenSpec): a RefreshToken call whose token fails verification (bad
\* signature, malformed, wrong type or expired) ends at once with Invalid or
\* Expired; no refresh-token record, session or user is created or changed,
\* and the call is the same step when the store cannot be read.
C23_UnverifiedTouchesNothing ==
    [][\A tok \in TokenStrings \cap {last'.tok} :
          (/\ RefreshLookup("p1", tok, "none")
           /\ (~tok.sig \/ tok = NoToken \/ tok.kind # "refresh"
                 \/ ~(now < ExpiresAt(tok))))
              => /\ last'.op = "refresh" /\ last'.tok = tok
                 /\ last'.res \in {"Invalid", "Expired"}
                 /\ calls'["p1"] = Idle
                 /\ UNCHANGED <<users, sessions, refresh_tokens>>
                 /\ RefreshLookup("p1", tok, "lookup")]_vars

\* The refresh token that Register handed out was presented after its expiry
\* time; the call failed with Expired and the token's record is still there,
\* unrevoked.
C23_Witness ==
    /\ last.op = "refresh" /\ last.res = "Expired"
    /\ last.tok \in Issued
    /\ ~(now < ExpiresAt(last.tok))
    /\ \E r \in refresh_tokens : r.token_hash = HashToken(last.tok) /\ ~r.revoked

\* C24 (Spec): a RefreshToken call that succeeds with a token whose record
\* is bound to session S stores the record of the new refresh token bound
\* to S, and creates no session.
C24_RotationKeepsSession ==
    [][(/\ calls["p1"].op = "refresh" /\ calls["p1"].pc = "issue"
        /\ calls'["p1"].pc = "idle"
        /\ last'.res = "ok")
          => LET stored == {r \in refresh_tokens :
                              r.token_hash = HashToken(calls["p1"].tok)}
             IN  /\ stored # {}
                 /\ sessions' = sessions
                 /\ \A old \in stored :
                      \E r \in refresh_tokens' \ refresh_tokens :
                          /\ r.token_hash = HashToken(last'.out)
                          /\ r.session_id = old.session_id
                          /\ \E ss \in sessions : ss.id = r.session_id]_vars

\* The last call rotated a token: the record of the presented token and the
\* record of the token handed out are bound to one session, and that is the
\* only session.
C24_Witness ==
    /\ last.op = "refresh" /\ last.res = "ok"
    /\ Cardinality(sessions) = 1
    /\ \E old, r \in refresh_tokens :
          /\ old.token_hash = HashToken(last.tok) /\ old.revoked
          /\ r.token_hash = HashToken(last.out) /\ ~r.revoked
          /\ r.session_id = old.session_id
          /\ r # old

\* C25 (ResetRaceSpec): a password-reset token is redeemed at most once: no
\* ResetPassword call succeeds with a token that a ResetPassword call has
\* already succeeded with.  Fails: two calls in flight both read used = FALSE
\* before either sets it, and both change the password and return nil.
C25_ResetTokenSingleUse ==
    [][\A p \in Procs :
          (/\ calls[p].op = "reset" /\ calls[p].pc = "sweep"
           /\ calls'[p].pc = "idle"
           /\ last'.res = "ok")
              => calls[p].reset \notin resetDone]_vars

\* C26 (ResetSpec): once a ResetPassword call has succeeded for a user,
\* every refresh token that was stored for the user before is revoked, and
\* no RefreshToken call succeeds with it.  Fails: the error of
\* RevokeUserRefreshTokens is dropped; when the store rejects that UPDATE the
\* call still returns nil and the user's tokens stay redeemable.
C26_ResetRevokesTokens ==
    /\ \A r \in refresh_tokens : TokenOf(r) \in swept => r.revoked
    /\ (last.op = "refresh" /\ "swept" \in last.pre) => last.res # "ok"

\* C27: a new_message event is dispatched to connections only by a
\* SendMessage request whose message row is in the store, and a SendMessage
\* whose CreateMessage fails stores nothing, dispatches nothing and ends
\* with an error response.
C27_DispatchAfterPersist ==
    [][/\ sent' # sent =>
            /\ req.op = "sendMessage" /\ req.pc = "dispatch"
            /\ \E m \in messages : m.id = req.msg /\ m.sender_id = req.user
       /\ \A u \in WSUsers :
            SendMessageCreate(u, "message") =>
                /\ UNCHANGED <<wsVars, messages>>
                /\ req' = NoRequest
                /\ reply'.op = "sendMessage" /\ reply'.res = "error"]_vars

\* Both participants' connections have the event of a stored message, and a
\* later SendMessage has failed to store its message.
C27_Witness ==
    /\ Cardinality(messages) = 1
    /\ sent = Len(ChatUsers)
    /\ \A c \in Clients : client[c].Send # <<>>
    /\ reply.op = "sendMessage" /\ reply.res = "error"
\* A step of a notification goroutine: one of them moves on or ends.
JobStep == \E j \in jobs : j \notin jobs' /\ spawned' = spawned

\* C28: no step of a notification goroutine, failing or not, touches the
\* stored messages and connections or a request and its response; a
\* SendMessage whose message is stored answers with success and a
\* SendRequest to another user answers with success and leaves its
\* connection row, whatever the goroutines do; stored rows stay.
C28_NotificationFailureIsolated ==
    [][/\ JobStep => UNCHANGED <<messages, connections, req, reply>>
       /\ (req.op = "sendMessage" /\ req' = NoRequest) =>
            /\ reply'.op = "sendMessage" /\ reply'.res = "ok"
            /\ \E m \in messages' : m.id = reply'.msg
       /\ \A u, v \in WSUsers :
            (u # v /\ SendRequest(u, v, "none")) =>
                /\ reply'.res = "ok"
                /\ \E c \in connections' : c.id = reply'.conn
       /\ messages \subseteq messages'
       /\ \A c \in connections : \E d \in connections' : d.id = c.id]_vars

\* A message and a connection request were answered with success and are
\* stored although both notification goroutines have ended without a
\* notification recorded or pushed.
C28_Witness ==
    /\ reply.op = "sendRequest" /\ reply.res = "ok"
    /\ Cardinality(messages) = 1
    /\ connections # {}
    /\ spawned = 2 /\ jobs = {}
    /\ notifications = {} /\ pushes = 0

\* C29: a connection request to oneself is answered with an error, starts no
\* notification and leaves the connections as they are; the step is the
\* same when the store is failing, so the store is not consulted.
C29_SelfRequestRejected ==
    [][\A u \in WSUsers :
         SendRequest(u, u, "none") =>
             /\ reply'.op = "sendRequest" /\ reply'.res = "error"
             /\ UNCHANGED <<connections, jobs, spawned, notifications>>
             /\ SendRequest(u, u, "connection")]_vars

\* A request to oneself was refused while a connection is stored.
C29_Witness ==
    /\ reply.op = "sendRequest" /\ reply.res = "error"
    /\ reply.conn = <<reply.user, reply.user>>
    /\ connections # {}

\* C30: an answer to a stored connection request by a user who is not its
\* receiver ends with an error and leaves every connection as it is.
C30_OnlyReceiverResponds ==
    [][\A u \in WSUsers, id \in WSUsers \X WSUsers, accept \in BOOLEAN :
         (/\ \E c \in GetConnectionByID(id) : c.receiver_id # u
          /\ RespondToRequest(u, id, accept, "none")) =>
             /\ reply'.op = "respondToRequest" /\ reply'.res = "error"
             /\ UNCHANGED <<connections, jobs, spawned>>]_vars

\* The requester tried to answer their own pending request.
C30_Witness ==
    /\ reply.op = "respondToRequest" /\ reply.res = "error"
    /\ \E c \in connections :
         /\ c.id = reply.conn /\ c.status = "pending"
         /\ c.requester_id = reply.user /\ c.receiver_id # reply.user

\* C31: in every state, also after a statement or a commit has failed, each
\* stored chat has exactly its two participant rows, each participant row
\* belongs to a stored chat, and each chat has been touched once for each of
\* its stored messages.
C31_TransactionsAtomic ==
    /\ \A c \in chats :
         {r.slot : r \in {r \in chat_participants : r.chat_id = c.id}} = {1, 2}
    /\ \A r \in chat_participants : \E c \in chats : c.id = r.chat_id
    /\ \A c \in chats :
         c.touches = Cardinality({m \in messages : m.chat_id = c.id})

\* A chat with a message is stored, a transaction that had inserted a row
\* was rolled back, and no transaction is open.
C31_Witness ==
    /\ chats # {} /\ messages # {}
    /\ \A p \in Procs : tx[p].op = "none"
    /\ idSeq > Cardinality(chats) + Cardinality(messages)

\* C32 (FaultSpec): a RefreshToken call that has returned a new pair leaves
\* the record of the token it was given revoked.  Fails: the error of
\* RevokeRefreshToken is dropped, and when the UPDATE fails the call goes on
\* and returns a new pair while the presented record stays unrevoked.
C32_SuccessMeansRevoked ==
    (last.op = "refresh" /\ last.res = "ok")
        => \A r \in refresh_tokens : TokenOf(r) = last.tok => r.revoked

\* C33 (FaultSpec): when a RefreshToken call that found the stored record
\* of its token valid then returns an error (user lookup, session creation
\* or the insert of the new record failed), the record of the presented
\* token is not revoked.  Fails: the record is revoked before those steps
\* are taken, and nothing undoes the revocation when one of them fails.
C33_FailedRefreshKeepsToken ==
    [][\A p \in Procs :
          (/\ calls[p].op = "refresh" /\ calls[p].pc = "issue"
           /\ calls'[p].pc = "idle"
           /\ last'.res # "ok")
              => \A r \in refresh_tokens' :
                     TokenOf(r) = calls[p].tok => ~r.revoked]_vars

\* C34 (FaultSpec): a Register call that returns an error has created no
\* user record.  Fails: the user is inserted first, outside any
\* transaction; when CreateSession or CreateRefreshToken then fails the call
\* returns the error and the user record stays, so the email is taken.
C34_RegisterAllOrNothing ==
    [][\A p \in Procs :
          (/\ calls[p].op = "register" /\ calls[p].pc = "create"
           /\ calls'[p].pc = "idle"
           /\ last'.res # "ok")
              => users' = users]_vars

\* C35 (ConnectionRaceSpec): the status of a stored connection changes only
\* from pending to accepted or from pending to rejected.  Fails: two calls
\* read the request while it is pending and each then writes its status
\* without a condition on the current one, so an accepted request becomes
\* rejected (or a rejected one accepted, also by the auto-accept of a
\* reverse request).
C35_StatusSettlesOnce ==
    [][\A c \in connections : \A d \in connections' :
          (d.id = c.id /\ d.status # c.status)
              => (c.status = "pending" /\ d.status \in {"accepted", "rejected"})]_vars

\* C36 (ConnectionSpec): two users have at most one connection record
\* between them, whichever of them is the requester.  Fails: a request in
\* the reverse direction of a record that is no longer pending is inserted
\* as a second record.
C36_OneRecordPerPair ==
    \A c, d \in connections :
        {c.requester_id, c.receiver_id} = {d.requester_id, d.receiver_id}
            => c = d

\* C37 (MessageSpec): the sender of every stored message is a participant
\* of the message's chat.  Fails: neither the handler nor ChatService nor
\* CreateMessage compares the caller with the chat's participants, so a
\* signed-in user who knows a chat's id stores a message in it, and the
\* handler then dispatches it to the participants.
C37_SenderIsParticipant ==
    \A m \in messages :
        \E r \in chat_participants : /\ r.chat_id = m.chat_id
                                     /\ r.user_id = m.sender_id

\* C38 (WSSpec): in every state the two indexes of the registry agree: a
\* connection is in m.clients exactly when it is in the group of its user
\* in m.userClients, it is in the group of no other user, and no group is
\* left over for a connection that was never opened.
C38_IndexesAgree ==
    /\ \A c \in Clients :
         /\ c \in clients <=> /\ client[c].UserID \in DOMAIN userClients
                              /\ c \in userClients[client[c].UserID]
         /\ \A u \in DOMAIN userClients :
              c \in userClients[u] => u = client[c].UserID
    /\ \A u \in DOMAIN userClients : userClients[u] \subseteq Clients

\* A connection of A has been unregistered while a connection of B stays
\* registered, and events have been dispatched.
C38_Witness ==
    \E c, d \in Clients :
        /\ client[c].UserID = "A" /\ client[c].closed /\ c \notin clients
        /\ client[d].UserID = "B" /\ d \in clients /\ d \in userClients["B"]
        /\ "A" \notin DOMAIN userClients
        /\ sent > 0

\* The users with a participant row in chat chatID.
ParticipantsOf(chatID) ==
    {r.user_id : r \in {r \in chat_participants : r.chat_id = chatID}}

\* C39 (ChatRaceSpec): no two stored chats have the same participants.
\* Fails: two CreateChat calls for one pair both run the check before
\* either commits, and each then inserts a chat; nothing in the statements
\* makes the second insert fail.
C39_OneChatPerPair ==
    \A c, d \in chats :
        ParticipantsOf(c.id) = ParticipantsOf(d.id) => c = d

\* C40 (WSSpec): a SendToUser(U, event) that starts after the handler's send
\* of a connection of U on the channel register has returned appends the
\* event to the queue of that connection, if the connection is still up and
\* not being unregistered and its queue has room.  Fails: the handler's send
\* returns when Run has received the connection, which is before Run takes
\* the lock and puts the connection into the maps; a SendToUser in between
\* does not find it.
C40_RegisteredOnHandOff ==
    [][\A u \in WSUsers :
          SendToUser(u)
              => \A c \in Clients :
                   (/\ client[c].UserID = u
                    /\ client[c].handler = "done"
                    /\ client[c].up /\ client[c].reader = "read"
                    /\ ~client[c].closed
                    /\ Len(client[c].Send) < SendBuffer)
                       => client'[c].Send =
                            Append(client[c].Send, [n |-> sent + 1, to |-> u])]_vars

=============================================================================
